---- MODULE Spec2Model ----
(***************************************************************************)
(* A model of the geospatial pipeline of map-range-vibecode:               *)
(*   searchLocation  (src/services/apiService.ts)                          *)
(*   analyzeLocation (src/services/geminiService.ts, the Overpass-backed   *)
(*                    variant, and src/unnamed/part_000, the generative-   *)
(*                    model-backed variant)                                *)
(*   suggestRoute    (src/services/apiService.ts, the OSRM-backed variant, *)
(*                    and src/unnamed/part_000, the generative-model-      *)
(*                    backed variant)                                      *)
(* Strings are sequences of one-character strings.  Coordinates are        *)
(* fixed-point integers: a number x is held as x * Scale.  Distances,      *)
(* durations and costs are binary64 numbers.                               *)
(***************************************************************************)
EXTENDS Integers, Sequences, FiniteSets, Bags, TLC

VARIABLES
    \* ---- searchLocation(query) ----
    query,      \* the argument of the call, a sequence of characters
    typed,      \* ghost: how the query was composed (None for a place name)
    pc,         \* "idle" | "fetch" | "json" | "done": where the call is suspended
    provider,   \* the provider whose try-block the call is in
    inflight,   \* providers with a request issued and not yet completed
    requests,   \* ghost: the requests issued by the call, in order
    got,        \* ghost: what each requested provider answered, in order
    result,     \* None, or the settled promise: a Location or an Error
    \* ---- analyzeLocation(location, radiusMeters) ----
    backend,    \* "overpass" | "gemini": which variant of the service is linked
    args,       \* the arguments of the call: location and radiusMeters
    apc,        \* "idle" | "fetch" | "json" | "done": where the call is suspended
    sent,       \* ghost: the outbound requests issued by the call, in order
    response,   \* ghost: the body the backend answered with (None before)
    analysis,   \* the settled promise: an AnalysisResult or an Error
    \* ---- suggestRoute(origin, destination) ----
    planner,    \* "osrm" | "gemini": which variant of the service is linked
    trip,       \* the arguments of the call: origin and destination
    rpc,        \* "idle" | "fetch" | "json" | "done": where the call is suspended
    rsent,      \* ghost: the outbound requests issued, in order
    rdata,      \* ghost: the body the backend answered with (None before)
    routes,     \* the settled promise: a list of RouteOption or an Error
    \* ---- the application ----
    app,        \* the state of the App component
    controls,   \* the state of the Controls component
    pending,    \* the bag of asynchronous operations begun and not yet settled
    \* ---- the map layers ----
    places,     \* the items of the analysis handed to HeatmapLayer
    points,     \* None, or the points of the heat layer on the map
    circle,     \* the center and radius handed to GeodesicCircle
    pts,        \* the points pushed by the loop of GeodesicCircle so far
    positions,  \* None, or the ring handed to the Polygon
    span,       \* the two points handed to getDistance
    measured    \* None, or the distance returned

searchVars  == <<query, typed, pc, provider, inflight, requests, got, result>>
analyzeVars == <<backend, args, apc, sent, response, analysis>>
routeVars   == <<planner, trip, rpc, rsent, rdata, routes>>
appVars     == <<app, controls, pending>>
mapVars     == <<places, points, circle, pts, positions, span, measured>>
vars        == <<searchVars, analyzeVars, routeVars, appVars, mapVars>>

None    == <<>>
Some(x) == <<x>>

(***************************************************************************)
(* Bounds of the model.                                                    *)
(***************************************************************************)
FracDigits == 2     \* decimal places kept by the fixed-point numbers (>= 2)
MaxTags    == 2     \* tags per feature in the classification inputs
MaxCoords  == 3     \* points in a route geometry
MaxOptions == 3     \* options in a planned list of routes
MaxCalls   == 2     \* invocations of one service in a run
MaxPending == 2     \* asynchronous operations of the application pending at once
MaxItems   == 2     \* items of the analysis handed to the heat layer
MaxElems   == 12    \* features in one response (more than 10 of one category and one of another)

RECURSIVE Pow10(_)
Pow10(n) == IF n = 0 THEN 1 ELSE 10 * Pow10(n - 1)

Scale == Pow10(FracDigits)

\* the number i.hh (hh in hundredths), e.g. Dec(13, 75) is 13.75
Dec(i, hh) == i * Scale + hh * (Scale \div 100)

(***************************************************************************)
(* JavaScript values: a number, NaN or undefined.                          *)
(***************************************************************************)
Num(n)    == [k |-> "number", v |-> n]
NaN       == [k |-> "NaN", v |-> 0]
Undefined == [k |-> "undefined", v |-> 0]

IsNumber(x) == x.k = "number"

(***************************************************************************)
(* Characters.                                                             *)
(***************************************************************************)
Digits == <<"0", "1", "2", "3", "4", "5", "6", "7", "8", "9">>

IsDigit(c) == \E d \in 1..10 : Digits[d] = c
DigitVal(c) == (CHOOSE d \in 1..10 : Digits[d] = c) - 1
IsSpace(c) == c = " "                      \* \s
IsSep(c)   == c = "," \/ IsSpace(c)        \* [,\s]
IsSign(c)  == c = "-" \/ c = "+"           \* [-+]

At(s, i) == IF i >= 1 /\ i <= Len(s) THEN s[i] ELSE ""

\* the number of digits of s from position i on
RECURSIVE DigitRun(_, _)
DigitRun(s, i) == IF IsDigit(At(s, i)) THEN 1 + DigitRun(s, i + 1) ELSE 0

\* the value of the n digits of s from position i on
RECURSIVE IntVal(_, _, _)
IntVal(s, i, n) ==
    IF n = 0 THEN 0 ELSE 10 * IntVal(s, i, n - 1) + DigitVal(s[i + n - 1])

\* the value, times Scale, of the n fraction digits of s from position i on
\* (digits past FracDigits are below the model's precision)
RECURSIVE FracVal(_, _, _)
FracVal(s, i, n) ==
    IF n = 0 THEN 0
    ELSE FracVal(s, i, n - 1)
         + (IF n <= FracDigits THEN DigitVal(s[i + n - 1]) * Pow10(FracDigits - n) ELSE 0)

\* String.prototype.trim
RECURSIVE TrimStart(_)
TrimStart(s) == IF s # <<>> /\ IsSpace(Head(s)) THEN TrimStart(Tail(s)) ELSE s

RECURSIVE TrimEnd(_)
TrimEnd(s) ==
    IF s # <<>> /\ IsSpace(s[Len(s)]) THEN TrimEnd(SubSeq(s, 1, Len(s) - 1)) ELSE s

Trim(s) == TrimEnd(TrimStart(s))

SetMax(S) == CHOOSE x \in S : \A y \in S : y <= x
SetMin(S) == CHOOSE x \in S : \A y \in S : x <= y

(***************************************************************************)
(* coordRegex = /([-+]?\d{1,2}\.\d+)[,\s]+([-+]?\d{1,3}\.\d+)/             *)
(* A backtracking matcher: the match is the one at the leftmost start      *)
(* position, and among the matches there the one a greedy quantifier       *)
(* prefers (the longer alternative first, the earlier quantifier first).   *)
(***************************************************************************)
RECURSIVE SepRun(_, _)
SepRun(s, i) == IF IsSep(At(s, i)) THEN 1 + SepRun(s, i + 1) ELSE 0

\* the ways [-+]?\d{1,maxInt}\.\d+ matches s from position i: sg sign
\* characters, n integer digits, m fraction digits, ending before position e
NumMatches(s, i, maxInt) ==
    { c \in { [sg |-> sg, n |-> n, m |-> m, e |-> i + sg + n + 1 + m] :
                sg \in {0, 1}, n \in 1..maxInt, m \in 1..Len(s) } :
        /\ c.sg = 1 => IsSign(At(s, i))
        /\ \A j \in (i + c.sg)..(i + c.sg + c.n - 1) : IsDigit(At(s, j))
        /\ At(s, i + c.sg + c.n) = "."
        /\ \A j \in (i + c.sg + c.n + 1)..(c.e - 1) : IsDigit(At(s, j)) }

\* a prefers over b: greedy [-+]?, then greedy \d{1,n}, then greedy \d+
Prefers(a, b) ==
    \/ a.sg > b.sg
    \/ a.sg = b.sg /\ a.n > b.n
    \/ a.sg = b.sg /\ a.n = b.n /\ a.m >= b.m

Preferred(C) == CHOOSE c \in C : \A d \in C : Prefers(c, d)

NoMatch == [found |-> FALSE, g1 |-> <<>>, g2 |-> <<>>]

\* the separator runs after a first number ending before e that lead to a
\* second number
SepMatches(s, e) ==
    {k \in 1..SepRun(s, e) : NumMatches(s, e + k, 3) # {}}

MatchAt(s, i) ==
    LET C1 == {c \in NumMatches(s, i, 2) : SepMatches(s, c.e) # {}}
    IN  IF C1 = {} THEN NoMatch
        ELSE LET c1 == Preferred(C1)
                 k  == SetMax(SepMatches(s, c1.e))
                 c2 == Preferred(NumMatches(s, c1.e + k, 3))
             IN  [found |-> TRUE,
                  g1 |-> SubSeq(s, i, c1.e - 1),
                  g2 |-> SubSeq(s, c1.e + k, c2.e - 1)]

\* trimmedQuery.match(coordRegex)
CoordMatch(s) ==
    LET starts == {i \in 1..Len(s) : MatchAt(s, i).found}
    IN  IF starts = {} THEN NoMatch ELSE MatchAt(s, SetMin(starts))

(***************************************************************************)
(* parseFloat: leading white space, an optional sign, digits, an optional  *)
(* fraction; NaN when no digit is read.                                    *)
(***************************************************************************)
ParseFloatNoSign(str) ==
    LET s  == TrimStart(str)
        sg == IF IsSign(At(s, 1)) THEN 1 ELSE 0
        ni == DigitRun(s, sg + 1)
        nf == IF At(s, sg + ni + 1) = "." THEN DigitRun(s, sg + ni + 2) ELSE 0
    IN  IF ni = 0 /\ nf = 0 THEN NaN
        ELSE Num(IntVal(s, sg + 1, ni) * Scale + FracVal(s, sg + ni + 2, nf))

ParseFloat(str) ==
    LET s  == TrimStart(str)
        sg == IF IsSign(At(s, 1)) THEN 1 ELSE 0
        ni == DigitRun(s, sg + 1)
        nf == IF At(s, sg + ni + 1) = "." THEN DigitRun(s, sg + ni + 2) ELSE 0
        mag == IntVal(s, sg + 1, ni) * Scale + FracVal(s, sg + ni + 2, nf)
    IN  IF ni = 0 /\ nf = 0 THEN NaN
        ELSE Num(IF At(s, 1) = "-" THEN 0 - mag ELSE mag)

\* parseFloat of a field that may be missing: parseFloat(undefined) is NaN
ParseFloatOpt(o) == IF o = None THEN NaN ELSE ParseFloat(o[1])

(***************************************************************************)
(* searchLocation, step 1: the coordinates written in the query.           *)
(***************************************************************************)
\* !isNaN(lat) && !isNaN(lng) && lat >= -90 && lat <= 90 && lng >= -180 && lng <= 180
InRange(lat, lng) ==
    /\ lat.k # "NaN" /\ lng.k # "NaN"
    /\ IsNumber(lat) /\ lat.v >= -90 * Scale /\ lat.v <= 90 * Scale
    /\ IsNumber(lng) /\ lng.v >= -180 * Scale /\ lng.v <= 180 * Scale

NoCoords == [ok |-> FALSE, lat |-> Undefined, lng |-> Undefined]

DirectParse(trimmedQuery) ==
    LET coordMatch == CoordMatch(trimmedQuery)
    IN  IF coordMatch.found
        THEN LET lat == ParseFloat(coordMatch.g1)
                 lng == ParseFloat(coordMatch.g2)
             IN  IF InRange(lat, lng)
                 THEN [ok |-> TRUE, lat |-> lat, lng |-> lng]
                 ELSE NoCoords
        ELSE NoCoords

(***************************************************************************)
(* searchLocation, steps 2-4: the provider chain.  A provider's parsed     *)
(* body is one of the shapes below; None is a missing field.               *)
(***************************************************************************)
Thrown         == [kind |-> "throw",  lat |-> Undefined, lng |-> Undefined]
Skipped        == [kind |-> "skip",   lat |-> Undefined, lng |-> Undefined]
Returned(a, b) == [kind |-> "return", lat |-> a, lng |-> b]

\* arr[i] of a JavaScript array (0-based i): undefined past the end
Elem(arr, i) == IF i + 1 <= Len(arr) THEN arr[i + 1] ELSE Undefined

\* ArcGIS: { candidates: [ { location: { x, y } } ] }
ArcGISLocations ==
    { [x |-> Num(Dec(100, 50)), y |-> Num(Dec(13, 75))],
      [x |-> Num(Dec(100, 50)), y |-> Num(Dec(95, 0))],
      [x |-> Num(Dec(100, 50)), y |-> Undefined],
      [x |-> Undefined,         y |-> Undefined] }

ArcGISCandidates ==
    {[location |-> None]} \cup {[location |-> Some(l)] : l \in ArcGISLocations}

ArcGISSecond == [location |-> Some([x |-> Num(Dec(100, 60)), y |-> Num(Dec(13, 80))])]

ArcGISData ==
    { [null |-> TRUE,  candidates |-> None],
      [null |-> FALSE, candidates |-> None],
      [null |-> FALSE, candidates |-> Some(<<>>)] }
    \cup {[null |-> FALSE, candidates |-> Some(<<c>>)] : c \in ArcGISCandidates}
    \cup {[null |-> FALSE, candidates |-> Some(<<c, ArcGISSecond>>)] :
            c \in {[location |-> None],
                   [location |-> Some([x |-> Num(Dec(100, 50)), y |-> Num(Dec(13, 75))])]}}

ArcGISTry(data) ==
    IF data.null THEN Thrown                        \* data.candidates of null
    ELSE IF data.candidates # None /\ Len(data.candidates[1]) > 0
    THEN LET candidate == data.candidates[1][1]
         IN  IF candidate.location = None THEN Thrown   \* location.y of undefined
             ELSE Returned(candidate.location[1].y, candidate.location[1].x)
    ELSE Skipped

\* Photon: { features: [ { geometry: { coordinates: [lng, lat] } } ] }
PhotonCoordinates ==
    { <<Num(Dec(100, 40)), Num(Dec(13, 70))>>,
      <<Num(Dec(200, 0)),  Num(Dec(13, 70))>>,
      <<Num(Dec(100, 40))>>,
      <<>> }

PhotonFeatures ==
    {[geometry |-> None], [geometry |-> Some([coordinates |-> None])]}
    \cup {[geometry |-> Some([coordinates |-> Some(a)])] : a \in PhotonCoordinates}

PhotonSecond ==
    [geometry |-> Some([coordinates |-> Some(<<Num(Dec(100, 41)), Num(Dec(13, 71))>>)])]

PhotonData ==
    { [null |-> TRUE,  features |-> None],
      [null |-> FALSE, features |-> None],
      [null |-> FALSE, features |-> Some(<<>>)] }
    \cup {[null |-> FALSE, features |-> Some(<<f>>)] : f \in PhotonFeatures}
    \cup {[null |-> FALSE, features |-> Some(<<f, PhotonSecond>>)] :
            f \in {[geometry |-> Some([coordinates |->
                      Some(<<Num(Dec(100, 40)), Num(Dec(13, 70))>>)])]}}

PhotonTry(data) ==
    IF data.null THEN Thrown
    ELSE IF data.features # None /\ Len(data.features[1]) > 0
    THEN LET feature == data.features[1][1]
         IN  IF feature.geometry = None THEN Thrown
             ELSE IF feature.geometry[1].coordinates = None THEN Thrown
             ELSE LET lng == Elem(feature.geometry[1].coordinates[1], 0)
                      lat == Elem(feature.geometry[1].coordinates[1], 1)
                  IN  Returned(lat, lng)
    ELSE Skipped

\* Nominatim: [ { lat: "13.72", lon: "100.45" } ]; array is None when the
\* body is not an array (an error object)
NominatimResults ==
    { [lat |-> Some(<<"1", "3", ".", "7", "2">>), lon |-> Some(<<"1", "0", "0", ".", "4", "5">>)],
      [lat |-> Some(<<"9", "5", ".", "0", "0">>), lon |-> Some(<<"1", "0", "0", ".", "4", "5">>)],
      [lat |-> Some(<<"1", "3", ".", "7", "2">>), lon |-> None],
      [lat |-> None, lon |-> None] }

NominatimSecond ==
    [lat |-> Some(<<"1", "3", ".", "7", "3">>), lon |-> Some(<<"1", "0", "0", ".", "4", "6">>)]

NominatimData ==
    { [null |-> TRUE,  array |-> None],
      [null |-> FALSE, array |-> None],
      [null |-> FALSE, array |-> Some(<<>>)] }
    \cup {[null |-> FALSE, array |-> Some(<<r>>)] : r \in NominatimResults}
    \cup {[null |-> FALSE, array |-> Some(<<r, NominatimSecond>>)] :
            r \in {[lat |-> Some(<<"1", "3", ".", "7", "2">>),
                    lon |-> Some(<<"1", "0", "0", ".", "4", "5">>)]}}

NominatimTry(data) ==
    IF ~data.null /\ data.array # None /\ Len(data.array[1]) > 0
    THEN Returned(ParseFloatOpt(data.array[1][1].lat), ParseFloatOpt(data.array[1][1].lon))
    ELSE Skipped

Chain == <<"ArcGIS", "Photon", "Nominatim">>

DataOf(p) ==
    CASE p = "ArcGIS" -> ArcGISData
      [] p = "Photon" -> PhotonData
      [] p = "Nominatim" -> NominatimData

\* the try-block of provider p, run on the parsed body
TryProvider(p, data) ==
    CASE p = "ArcGIS" -> ArcGISTry(data)
      [] p = "Photon" -> PhotonTry(data)
      [] p = "Nominatim" -> NominatimTry(data)

NextProviderRetry(p) == Some(p)

\* the try-block that follows provider p's; None: the final throw
NextProvider(p) ==
    CASE p = "ArcGIS" -> Some("Photon")
      [] p = "Photon" -> Some("Nominatim")
      [] p = "Nominatim" -> None

\* the message of the Error thrown at the end of searchLocation (a Thai
\* sentence, "the place was not found, please give a clearer name")
NotFoundMessage == "NotFound"

Pending == [kind |-> "pending", lat |-> Undefined, lng |-> Undefined, via |-> "", message |-> ""]
Location(lat, lng, via) ==
    [kind |-> "location", lat |-> lat, lng |-> lng, via |-> via, message |-> ""]
Failure(message) ==
    [kind |-> "error", lat |-> Undefined, lng |-> Undefined, via |-> "", message |-> message]

(***************************************************************************)
(* The queries: a place name, or two numbers composed of a sign, integer   *)
(* digits and fraction digits (no fraction: no decimal point), separated   *)
(* by a comma and a space or by a space, with or without surrounding white *)
(* space.                                                                  *)
(***************************************************************************)
PlaceNames == { <<"S", "i", "a", "m">>, <<" ", "S", "i", "a", "m", " ">> }

Signs    == { <<>>, <<"-">> }
LatInts  == { <<"1", "3">>, <<"9", "5">>, <<"1", "5", "0">>, <<"9", "9", "9">> }
LngInts  == { <<"1", "0", "0">>, <<"9", "9", "9">> }
LatFracs == { <<>>, <<"7", "5">> }
LngFracs == { <<>>, <<"5">> }
Seps     == { <<",", " ">>, <<" ">> }
Pads     == { <<>>, <<" ">> }

Written == [sign : Signs, int : LatInts \cup LngInts, frac : LatFracs \cup LngFracs]

Typed ==
    { t \in [pad : Pads, lat : Written, sep : Seps, lng : Written] :
        /\ t.lat.int \in LatInts /\ t.lat.frac \in LatFracs
        /\ t.lng.int \in LngInts /\ t.lng.frac \in LngFracs /\ t.lng.sign = <<>> }

\* the text of a written number
NumText(w) == w.sign \o w.int \o (IF w.frac = <<>> THEN <<>> ELSE <<".">> \o w.frac)

\* the text of a typed query
QueryText(t) == t.pad \o NumText(t.lat) \o t.sep \o NumText(t.lng) \o t.pad

\* the number a written number denotes, times Scale
WrittenValue(w) ==
    LET mag == IntVal(w.int, 1, Len(w.int)) * Scale + FracVal(w.frac, 1, Len(w.frac))
    IN  IF w.sign = <<"-">> THEN 0 - mag ELSE mag

(***************************************************************************)
(* searchLocation as a process: it runs from the call to the first await,  *)
(* and from each settled await to the next await or to its end.            *)
(***************************************************************************)
SearchIdle ==
    /\ query = <<>> /\ typed = None /\ pc = "idle" /\ provider = ""
    /\ inflight = {} /\ requests = <<>> /\ got = <<>> /\ result = Pending

\* lines 122-150: trim, try the coordinates, else issue the ArcGIS request
Call(q, t) ==
    /\ pc = "idle"
    /\ query' = q
    /\ typed' = t
    /\ LET trimmedQuery == Trim(q)
           direct == DirectParse(trimmedQuery)
       IN  IF direct.ok
           THEN /\ result' = Location(direct.lat, direct.lng, "direct")
                /\ pc' = "done"
                /\ UNCHANGED <<provider, inflight, requests>>
           ELSE /\ pc' = "fetch"
                /\ provider' = Chain[1]
                /\ inflight' = inflight \cup {Chain[1]}
                /\ requests' = Append(requests, [to |-> Chain[1], q |-> trimmedQuery])
                /\ UNCHANGED result
    /\ UNCHANGED got
    /\ UNCHANGED <<analyzeVars, routeVars, appVars, mapVars>>

SearchLocation ==
    \/ \E q \in PlaceNames : Call(q, None)
    \/ \E t \in Typed : Call(QueryText(t), Some(t))

\* provider's try-block ended without a return (its catch ran, or its if
\* was false): control falls to the next try-block, or to the final throw
Proceed(answer) ==
    LET next == NextProvider(provider)
    IN  /\ got' = Append(got, answer)
        /\ IF next = None
           THEN /\ pc' = "done"
                /\ result' = Failure(NotFoundMessage)
                /\ inflight' = inflight \ {provider}
                /\ UNCHANGED <<provider, requests>>
           ELSE /\ pc' = "fetch"
                /\ provider' = next[1]
                /\ inflight' = (inflight \ {provider}) \cup {next[1]}
                /\ requests' = Append(requests, [to |-> next[1], q |-> Trim(query)])
                /\ UNCHANGED result
        /\ UNCHANGED <<query, typed>>
        /\ UNCHANGED <<analyzeVars, routeVars, appVars, mapVars>>

Answer(p, how, data) == [from |-> p, how |-> how, data |-> data]

\* await fetch(url) rejects: the catch block runs
FetchRejects ==
    /\ pc = "fetch"
    /\ Proceed(Answer(provider, "fetch rejected", None))

\* await fetch(url) resolves: response.json() is awaited
FetchResolves ==
    /\ pc = "fetch"
    /\ pc' = "json"
    /\ UNCHANGED <<query, typed, provider, inflight, requests, got, result>>
    /\ UNCHANGED <<analyzeVars, routeVars, appVars, mapVars>>

\* await response.json() rejects (the body is not JSON): the catch block runs
JsonRejects ==
    /\ pc = "json"
    /\ Proceed(Answer(provider, "body unparseable", None))

\* await response.json() resolves with data: the rest of the try-block runs
JsonResolves ==
    /\ pc = "json"
    /\ \E data \in DataOf(provider) :
         LET r == TryProvider(provider, data)
         IN  IF r.kind = "return"
             THEN /\ result' = Location(r.lat, r.lng, provider)
                  /\ pc' = "done"
                  /\ inflight' = inflight \ {provider}
                  /\ got' = Append(got, Answer(provider, "body", Some(data)))
                  /\ UNCHANGED <<query, typed, provider, requests>>
                  /\ UNCHANGED <<analyzeVars, routeVars, appVars, mapVars>>
             ELSE Proceed(Answer(provider, "body", Some(data)))

SearchNext == SearchLocation \/ FetchRejects \/ FetchResolves \/ JsonRejects \/ JsonResolves

(***************************************************************************)
(* analyzeLocation, the Overpass-backed variant.  A feature's tag map is   *)
(* a function from the tag keys to None (no such tag) or Some(value); the  *)
(* name tags are sequences of characters, the others strings.              *)
(***************************************************************************)
TagKeys ==
    { "name:th", "name", "name:en", "landuse", "place", "building", "shop",
      "amenity", "public_transport", "railway", "highway", "leisure", "office" }

SevenEleven == <<"7", "-", "E", "l", "e", "v", "e", "n">>
Lotus       == <<"L", "o", "t", "u", "s">>

TagValues(k) ==
    CASE k = "name:th" -> { <<"T", "h">> }
      [] k = "name"    -> { SevenEleven \o <<" ", "9">>, <<"G", "o", " ">> \o Lotus,
                            <<"l", "o", "t", "u", "s">>, <<>> }
      [] k = "name:en" -> { <<"E", "n">> }
      [] k = "landuse" -> { "residential", "retail" }
      [] k = "place"   -> { "suburb" }
      [] k = "building" -> { "apartments" }
      [] k = "shop"    -> { "convenience", "supermarket", "mall", "department_store", "bakery" }
      [] k = "amenity" -> { "marketplace", "restaurant", "cafe", "fast_food", "food_court",
                            "bus_station", "post_office", "police", "hospital", "clinic",
                            "bank" }
      [] k = "public_transport" -> { "platform", "" }
      [] k = "railway" -> { "station", "halt" }
      [] k = "highway" -> { "bus_stop" }
      [] k = "leisure" -> { "park", "fitness_centre", "sports_centre", "playground", "garden" }
      [] k = "office"  -> { "government", "company" }

NoTags == [k \in TagKeys |-> None]

\* the tag maps with at most n tags
RECURSIVE TagMaps(_)
TagMaps(n) ==
    IF n = 0 THEN {NoTags}
    ELSE LET less == TagMaps(n - 1)
         IN  less \cup UNION { { [t EXCEPT ![k] = Some(v)] : t \in less, v \in TagValues(k) } :
                               k \in TagKeys }

\* sub occurs in s: String.prototype.includes
Includes(s, sub) ==
    \E i \in 1..(Len(s) - Len(sub) + 1) : SubSeq(s, i, i + Len(sub) - 1) = sub

\* t.name?.includes(sub): undefined (falsy) when there is no name
NameIncludes(t, sub) == t["name"] # None /\ Includes(t["name"][1], sub)

\* a tag value used as a condition: false when missing or the empty string
Truthy(o) == o # None /\ o[1] # ""

\* the same for a name tag, a sequence of characters
TruthyName(o) == o # None /\ o[1] # <<>>

\* the conditions of the if / else-if chain, in the order of the chain
IsResidential(t) ==
    \/ t["landuse"] = Some("residential")
    \/ t["place"] = Some("suburb")
    \/ t["building"] = Some("apartments")

IsConvenience(t) ==
    \/ t["shop"] = Some("convenience")
    \/ NameIncludes(t, SevenEleven)
    \/ NameIncludes(t, Lotus)

IsShopping(t) ==
    \/ t["shop"] = Some("supermarket")
    \/ t["shop"] = Some("mall")
    \/ t["shop"] = Some("department_store")
    \/ t["amenity"] = Some("marketplace")

IsFood(t) ==
    \/ t["amenity"] = Some("restaurant")
    \/ t["amenity"] = Some("cafe")
    \/ t["amenity"] = Some("fast_food")
    \/ t["amenity"] = Some("food_court")

IsTransport(t) ==
    \/ Truthy(t["public_transport"])
    \/ t["railway"] = Some("station")
    \/ t["highway"] = Some("bus_stop")
    \/ t["amenity"] = Some("bus_station")

IsRecreation(t) ==
    \/ t["leisure"] = Some("park")
    \/ t["leisure"] = Some("fitness_centre")
    \/ t["leisure"] = Some("sports_centre")
    \/ t["leisure"] = Some("playground")

IsPublicService(t) ==
    \/ t["amenity"] = Some("post_office")
    \/ t["amenity"] = Some("police")
    \/ t["amenity"] = Some("hospital")
    \/ t["amenity"] = Some("clinic")
    \/ t["office"] = Some("government")

Categories ==
    << "residential", "convenience", "shopping", "food", "transport", "recreation",
       "public_service" >>

UnnamedPlace == <<"u", "n", "n", "a", "m", "e", "d">>

\* formatPlace: the PlaceItem of a feature (id is a ghost field: the
\* feature's position in the response, which tells equal items apart)
FormatPlace(e) ==
    LET tags == e.tags[1]
        name == IF TruthyName(tags["name:th"]) THEN tags["name:th"][1]
                ELSE IF TruthyName(tags["name"]) THEN tags["name"][1]
                ELSE IF TruthyName(tags["name:en"]) THEN tags["name:en"][1]
                ELSE UnnamedPlace
    IN  [id |-> e.id, name |-> name, lat |-> e.lat, lng |-> e.lon,
         popularity |-> Num(Dec(0, 50)), source |-> "google"]

EmptyResult ==
    [locationName |-> <<>>, summary |-> "",
     residential |-> <<>>, convenience |-> <<>>, shopping |-> <<>>, food |-> <<>>,
     transport |-> <<>>, recreation |-> <<>>, public_service |-> <<>>]

Put(res, c, item) == [res EXCEPT ![c] = Append(@, item)]

\* the callback with every if on its own, no else
PushEachMatch(res, e) ==
    IF e.tags = None THEN res
    ELSE LET item == FormatPlace(e)
             t == e.tags[1]
             r1 == IF IsResidential(t) THEN Put(res, "residential", item) ELSE res
             r2 == IF IsConvenience(t) THEN Put(r1, "convenience", item) ELSE r1
             r3 == IF IsShopping(t) THEN Put(r2, "shopping", item) ELSE r2
             r4 == IF IsFood(t) THEN Put(r3, "food", item) ELSE r3
             r5 == IF IsTransport(t) THEN Put(r4, "transport", item) ELSE r4
             r6 == IF IsRecreation(t) THEN Put(r5, "recreation", item) ELSE r5
         IN  IF IsPublicService(t) THEN Put(r6, "public_service", item) ELSE r6

\* the callback with the shopping test moved before the convenience test
PushShoppingFirst(res, e) ==
    IF e.tags = None THEN res
    ELSE LET item == FormatPlace(e)
             t == e.tags[1]
         IN  IF IsResidential(t) THEN Put(res, "residential", item)
             ELSE IF IsShopping(t) THEN Put(res, "shopping", item)
             ELSE IF IsConvenience(t) THEN Put(res, "convenience", item)
             ELSE IF IsFood(t) THEN Put(res, "food", item)
             ELSE IF IsTransport(t) THEN Put(res, "transport", item)
             ELSE IF IsRecreation(t) THEN Put(res, "recreation", item)
             ELSE IF IsPublicService(t) THEN Put(res, "public_service", item)
             ELSE res

\* the callback of elements.forEach
Push(res, e) ==
    IF e.tags = None THEN res
    ELSE LET item == FormatPlace(e)
             t == e.tags[1]
         IN  IF IsResidential(t) THEN Put(res, "residential", item)
             ELSE IF IsConvenience(t) THEN Put(res, "convenience", item)
             ELSE IF IsShopping(t) THEN Put(res, "shopping", item)
             ELSE IF IsFood(t) THEN Put(res, "food", item)
             ELSE IF IsTransport(t) THEN Put(res, "transport", item)
             ELSE IF IsRecreation(t) THEN Put(res, "recreation", item)
             ELSE IF IsPublicService(t) THEN Put(res, "public_service", item)
             ELSE res

\* elements.forEach(callback), from the first n elements
RECURSIVE ForEach(_, _, _)
ForEach(res, elements, n) ==
    IF n = 0 THEN res ELSE Push(ForEach(res, elements, n - 1), elements[n])

\* the last 10 kept instead of the first 10
LimitLast(arr) == SubSeq(arr, IF Len(arr) < 10 THEN 1 ELSE Len(arr) - 9, Len(arr))

\* arr.slice(0, 10)
Limit(arr) == SubSeq(arr, 1, IF Len(arr) < 10 THEN Len(arr) ELSE 10)

LimitAll(res) ==
    [res EXCEPT !.residential = Limit(@), !.convenience = Limit(@),
                   !.shopping = Limit(@), !.food = Limit(@), !.transport = Limit(@),
                   !.recreation = Limit(@), !.public_service = Limit(@)]

\* lines 53-181: the result built from the parsed body
Categorize(location, elements) ==
    LimitAll(ForEach([EmptyResult EXCEPT
                        !.locationName = <<"around", location.lat, location.lng>>,
                        !.summary = "OpenStreetMap"],
                     elements, Len(elements)))

\* the features of the responses: feature i of a response, with its tags
Element(i, tags) ==
    [id |-> i, lat |-> Num(Dec(13, 70 + i)), lon |-> Num(Dec(100, 50)), tags |-> tags]

\* responses of one feature: every tag map of at most MaxTags tags, and a
\* feature without a tag map
ShortResponses ==
    {<<>>, <<Element(1, None)>>} \cup {<<Element(1, Some(t))>> : t \in TagMaps(MaxTags)}

\* responses of up to MaxElems features: all of one kind (a convenience shop
\* that is also a restaurant, or a cafe) but for at most two features of the
\* other kind, at every pair of positions
Palette ==
    { [NoTags EXCEPT !["shop"] = Some("convenience"), !["amenity"] = Some("restaurant")],
      [NoTags EXCEPT !["amenity"] = Some("cafe")] }

LongResponses ==
    UNION { { [i \in 1..n |-> Element(i, Some(IF i \in {j, k} THEN b ELSE a))] :
              a \in Palette, b \in Palette, j \in 0..n, k \in 0..n } :
            n \in 2..MaxElems }

\* the parsed body of the Overpass response: { elements: [...] }
OverpassData ==
    { [null |-> TRUE,  elements |-> None], [null |-> FALSE, elements |-> None] }
    \cup {[null |-> FALSE, elements |-> Some(r)] : r \in ShortResponses \cup LongResponses}

AnalysisFailedMessage == "AnalysisFailed"

APending         == [kind |-> "pending", value |-> EmptyResult, message |-> ""]
AResult(value)   == [kind |-> "result",  value |-> value, message |-> ""]
AFailure(message) == [kind |-> "error",  value |-> EmptyResult, message |-> message]

\* lines 52-185 run on the parsed body: data.elements of null and
\* elements.forEach of undefined throw, and the catch block rethrows
OverpassOutcome(location, data) ==
    IF data.null \/ data.elements = None THEN AFailure(AnalysisFailedMessage)
    ELSE AResult(Categorize(location, data.elements[1]))

(***************************************************************************)
(* analyzeLocation, the generative-model-backed variant (part_000).        *)
(***************************************************************************)
GeminiItems(n) ==
    [i \in 1..n |-> [id |-> i, name |-> <<"P">>, lat |-> Num(Dec(13, 70 + i)),
                     lng |-> Num(Dec(100, 50)), popularity |-> Num(Dec(0, 80)),
                     source |-> ""]]

\* the objects the model's JSON text parses to; a category may be missing
GeminiObjects ==
    { [locationName |-> <<"S", "i", "a", "m">>, summary |-> "livable",
       residential |-> Some(GeminiItems(n)), convenience |-> Some(<<>>),
       shopping |-> Some(<<>>), food |-> Some(GeminiItems(m)), transport |-> Some(<<>>),
       recreation |-> Some(<<>>), public_service |-> p] :
         n \in 0..MaxElems, m \in {0, 1, MaxElems}, p \in {None, Some(<<>>)} }

\* response.text: None (no text), or a text that parses (json) or does not
GeminiTexts ==
    { None, Some([json |-> None]) } \cup { Some([json |-> Some(o)]) : o \in GeminiObjects }

\* items?.map(i => ({ ...i, source: 'gemini' })) || []
Enhance(items) ==
    IF items = None THEN <<>>
    ELSE [i \in 1..Len(items[1]) |-> [items[1][i] EXCEPT !.source = "gemini"]]

\* lines 107-130 of part_000
GeminiOutcome(text) ==
    IF text = None THEN AFailure(AnalysisFailedMessage)
    ELSE IF text[1].json = None THEN AFailure(AnalysisFailedMessage)
    ELSE LET parsed == text[1].json[1]
         IN  AResult([parsed EXCEPT
                        !.residential = Enhance(@), !.convenience = Enhance(@),
                        !.shopping = Enhance(@), !.food = Enhance(@),
                        !.transport = Enhance(@), !.recreation = Enhance(@),
                        !.public_service = Enhance(@)])

(***************************************************************************)
(* analyzeLocation as a process.                                           *)
(***************************************************************************)
Backends == {"overpass", "gemini"}

\* a request answered from the earlier identical one instead of being sent
FetchCached(log, request) ==
    IF \E i \in 1..Len(log) : log[i] = request THEN log ELSE Append(log, request)

\* await fetch(...) / await ai.models.generateContent(...): one outbound
\* request, recorded in the log of requests
Fetch(log, request) == Append(log, request)

AnalyzeLocations == { [lat |-> Num(Dec(13, 75)), lng |-> Num(Dec(100, 50))] }
AnalyzeRadii     == { 500, 1000 }

AnalyzeIdle(b) ==
    /\ backend = b /\ apc = "idle" /\ sent = <<>> /\ response = None
    /\ args = [location |-> [lat |-> Num(0), lng |-> Num(0)], radiusMeters |-> 0]
    /\ analysis = APending

\* the call, up to the await of the one outbound request
AnalyzeLocation ==
    /\ apc = "idle"
    /\ \E location \in AnalyzeLocations, radiusMeters \in AnalyzeRadii :
         /\ args' = [location |-> location, radiusMeters |-> radiusMeters]
         /\ sent' = Fetch(sent, [to |-> backend, lat |-> location.lat,
                                 lng |-> location.lng, around |-> radiusMeters])
    /\ apc' = "fetch"
    /\ UNCHANGED <<backend, response, analysis>>
    /\ UNCHANGED <<searchVars, routeVars, appVars, mapVars>>

\* the awaited request rejects: the catch block throws the fixed error
AnalyzeRequestRejects ==
    /\ apc = "fetch"
    /\ apc' = "done"
    /\ analysis' = AFailure(AnalysisFailedMessage)
    /\ UNCHANGED <<backend, args, sent, response>>
    /\ UNCHANGED <<searchVars, routeVars, appVars, mapVars>>

\* Overpass: await fetch resolves, response.json() is awaited
OverpassFetchResolves ==
    /\ backend = "overpass" /\ apc = "fetch"
    /\ apc' = "json"
    /\ UNCHANGED <<backend, args, sent, response, analysis>>
    /\ UNCHANGED <<searchVars, routeVars, appVars, mapVars>>

\* Overpass: the body is not JSON
OverpassJsonRejects ==
    /\ backend = "overpass" /\ apc = "json"
    /\ apc' = "done"
    /\ analysis' = AFailure(AnalysisFailedMessage)
    /\ UNCHANGED <<backend, args, sent, response>>
    /\ UNCHANGED <<searchVars, routeVars, appVars, mapVars>>

\* Overpass: the body parses to data, one of D, and the rest of the function
\* runs
OverpassJsonResolvesFrom(D) ==
    /\ backend = "overpass" /\ apc = "json"
    /\ \E data \in D :
         /\ response' = Some(data)
         /\ analysis' = OverpassOutcome(args.location, data)
    /\ apc' = "done"
    /\ UNCHANGED <<backend, args, sent>>
    /\ UNCHANGED <<searchVars, routeVars, appVars, mapVars>>

OverpassJsonResolves == OverpassJsonResolvesFrom(OverpassData)

\* Gemini: generateContent resolves with a text, one of T, and the rest of
\* the function runs
GeminiResolvesFrom(T) ==
    /\ backend = "gemini" /\ apc = "fetch"
    /\ \E text \in T :
         /\ response' = Some(text)
         /\ analysis' = GeminiOutcome(text)
    /\ apc' = "done"
    /\ UNCHANGED <<backend, args, sent>>
    /\ UNCHANGED <<searchVars, routeVars, appVars, mapVars>>

GeminiResolves == GeminiResolvesFrom(GeminiTexts)

\* the caller has the settled promise and may call again
AnalyzeReturns ==
    /\ apc = "done" /\ Len(sent) < MaxCalls
    /\ apc' = "idle"
    /\ response' = None
    /\ analysis' = APending
    /\ UNCHANGED <<backend, args, sent>>
    /\ UNCHANGED <<searchVars, routeVars, appVars, mapVars>>

AnalyzeNext ==
    \/ AnalyzeLocation \/ AnalyzeRequestRejects
    \/ OverpassFetchResolves \/ OverpassJsonRejects \/ OverpassJsonResolves
    \/ GeminiResolves

(***************************************************************************)
(* JavaScript numbers in the distance, duration and cost arithmetic: IEEE  *)
(* 754 binary64, every operation rounded to 53 significant bits, ties to   *)
(* even.  A natural number is a sequence of limbs of LimbBits bits, least  *)
(* significant first, without leading zero limbs; a double is m * 2^e with *)
(* m of 53 bits, or zero.  Only non-negative finite values occur in the    *)
(* arithmetic modelled here.                                               *)
(***************************************************************************)
MantissaBits == 53
LimbBits == 15

RECURSIVE Pow2(_)
Pow2(n) == IF n = 0 THEN 1 ELSE 2 * Pow2(n - 1)

Base == Pow2(LimbBits)

RECURSIVE NatToBig(_)
NatToBig(n) == IF n = 0 THEN <<>> ELSE <<n % Base>> \o NatToBig(n \div Base)

RECURSIVE BigToNat(_)
BigToNat(b) == IF b = <<>> THEN 0 ELSE b[1] + Base * BigToNat(Tail(b))

RECURSIVE Norm(_)
Norm(b) == IF b = <<>> THEN <<>>
           ELSE IF b[Len(b)] = 0 THEN Norm(SubSeq(b, 1, Len(b) - 1)) ELSE b

RECURSIVE MulCarry(_, _, _, _)
MulCarry(b, i, k, carry) ==
    IF i > Len(b) THEN NatToBig(carry)
    ELSE LET t == b[i] * k + carry
         IN  <<t % Base>> \o MulCarry(b, i + 1, k, t \div Base)

\* b * k, for k < Base
MulSmall(b, k) == Norm(MulCarry(b, 1, k, 0))

RECURSIVE AddCarry(_, _, _, _)
AddCarry(a, b, i, carry) ==
    IF i > Len(a) /\ i > Len(b) THEN NatToBig(carry)
    ELSE LET t == (IF i <= Len(a) THEN a[i] ELSE 0)
                  + (IF i <= Len(b) THEN b[i] ELSE 0) + carry
         IN  <<t % Base>> \o AddCarry(a, b, i + 1, t \div Base)

AddBig(a, b) == Norm(AddCarry(a, b, 1, 0))

\* the quotient so far with one more digit
DivDigit(rest, digit) == [q |-> Append(rest.q, digit), r |-> rest.r]

\* long division of the limbs i..1 of b by k < Base, from remainder rem
RECURSIVE DivStep(_, _, _, _)
DivStep(b, i, k, rem) ==
    IF i = 0 THEN [q |-> <<>>, r |-> rem]
    ELSE DivDigit(DivStep(b, i - 1, k, (rem * Base + b[i]) % k), (rem * Base + b[i]) \div k)

NormQuotient(d) == [q |-> Norm(d.q), r |-> d.r]

\* quotient and remainder of b by k < Base
DivSmall(b, k) == NormQuotient(DivStep(b, Len(b), k, 0))

RECURSIVE LessFrom(_, _, _)
LessFrom(a, b, i) ==
    IF i = 0 THEN FALSE
    ELSE IF a[i] # b[i] THEN a[i] < b[i]
    ELSE LessFrom(a, b, i - 1)

\* a < b
LessBig(a, b) ==
    IF Len(a) # Len(b) THEN Len(a) < Len(b) ELSE LessFrom(a, b, Len(a))

\* the number of bits of b
BitLen(b) ==
    IF b = <<>> THEN 0
    ELSE (Len(b) - 1) * LimbBits
         + (CHOOSE n \in 1..LimbBits : Pow2(n - 1) <= b[Len(b)] /\ b[Len(b)] < Pow2(n))

\* b * 2^n
ShiftLeft(b, n) ==
    IF b = <<>> THEN <<>>
    ELSE [i \in 1..(n \div LimbBits) |-> 0] \o MulSmall(b, Pow2(n % LimbBits))

\* the quotient d of the limbs above the whole lowest limbs of b, and
\* whether its remainder or one of those limbs is not 0
WithSticky(d, b, whole) ==
    [q |-> d.q, sticky |-> d.r # 0 \/ \E i \in 1..whole : i <= Len(b) /\ b[i] # 0]

\* b \div 2^n, and whether any of the n bits dropped was set
ShiftRightSticky(b, n) ==
    WithSticky(DivSmall(SubSeq(b, n \div LimbBits + 1, Len(b)), Pow2(n % LimbBits)),
               b, n \div LimbBits)

ShiftRight(b, n) == ShiftRightSticky(b, n).q

Odd(b) == b # <<>> /\ b[1] % 2 = 1

Double(m, e) == [k |-> "num", m |-> m, e |-> e]

\* the mantissa m with the exponent e, m of one bit more than 53 after a
\* carry out of the rounding
Carried(m, e) ==
    IF BitLen(m) > MantissaBits THEN Double(ShiftRight(m, 1), e + 1) ELSE Double(m, e)

\* the 53 bits kept, one more when the bit below them is set and either a
\* lower bit is or the kept bits are odd
RoundKept(kept, half, sticky, e) ==
    Carried(IF half /\ (sticky \/ Odd(kept)) THEN AddBig(kept, <<1>>) ELSE kept, e)

\* low.q holds the 53 bits kept and the bit below them
RoundLow(low, e) == RoundKept(ShiftRight(low.q, 1), Odd(low.q), low.sticky, e)

\* b of len bits
RoundBits(b, e, len) ==
    IF len <= MantissaBits
    THEN Double(ShiftLeft(b, MantissaBits - len), e - (MantissaBits - len))
    ELSE RoundLow(ShiftRightSticky(b, len - MantissaBits - 1), e + (len - MantissaBits))

\* the double nearest to b * 2^e, ties to even
RoundBig(b, e) ==
    IF b = <<>> THEN Double(<<>>, 0) ELSE RoundBits(b, e, BitLen(b))

\* the double nearest to q * 2^e, for the quotient d.q with a last bit that
\* records a non-zero remainder
RoundQuotient(d, e) ==
    RoundBig(AddBig(ShiftLeft(d.q, 1), IF d.r = 0 THEN <<>> ELSE <<1>>), e)

\* the double nearest to (b / k) * 2^e, b shifted by s bits first
RoundShifted(b, k, e, s) == RoundQuotient(DivSmall(ShiftLeft(b, s), k), e - s - 1)

\* the double nearest to (b / k) * 2^e, for k < Base: the quotient is taken
\* to more than 53 bits and a last bit records a non-zero remainder
RoundRat(b, k, e) ==
    LET need == MantissaBits + 2 + LimbBits - BitLen(b)
    IN  RoundShifted(b, k, e, IF need > 0 THEN need ELSE 0)

\* a JSON number written as n / den in decimal (den a power of 10)
DoubleOf(n, den) == RoundRat(NatToBig(n), den, 0)

\* x / k and x * k for a small integer k
DivBy(x, k) == IF x.k # "num" THEN NaN ELSE RoundRat(x.m, k, x.e)
Times(x, k) == IF x.k # "num" THEN NaN ELSE RoundBig(MulSmall(x.m, k), x.e)

\* n + x for a small natural n
Plus(n, x) ==
    IF x.k # "num" THEN NaN
    ELSE IF x.m = <<>> THEN RoundBig(NatToBig(n), 0)
    ELSE RoundBig(AddBig(x.m, ShiftLeft(NatToBig(n), 0 - x.e)), x.e)

\* x < n for a small natural n; false for NaN and, as undefined < n
\* compares NaN, for undefined
LessThan(x, n) ==
    IF x.k # "num" THEN FALSE
    ELSE IF x.m = <<>> THEN 0 < n
    ELSE LessBig(x.m, ShiftLeft(NatToBig(n), 0 - x.e))

\* an integer-valued number
Whole(n) == [k |-> "whole", v |-> n]

\* Math.ceil(x), or NaN
Ceil(x) ==
    IF x.k # "num" THEN NaN
    ELSE IF x.m = <<>> THEN Whole(0)
    ELSE LET low == ShiftRightSticky(x.m, 0 - x.e)
         IN  Whole(IF low.sticky THEN BigToNat(low.q) + 1 ELSE BigToNat(low.q))

(***************************************************************************)
(* Number to string: toFixed and the template literals.                    *)
(***************************************************************************)
DigitChar(d) == Digits[d + 1]

RECURSIVE NatToStr(_)
NatToStr(n) ==
    IF n < 10 THEN <<DigitChar(n)>> ELSE Append(NatToStr(n \div 10), DigitChar(n % 10))

\* the n lowest decimal digits of v, with leading zeros
RECURSIVE PadDigits(_, _)
PadDigits(v, n) ==
    IF n = 0 THEN <<>> ELSE Append(PadDigits(v \div 10, n - 1), DigitChar(v % 10))

NaNText == <<"N", "a", "N">>

\* x.toFixed(f): the integer n nearest to x * 10^f, the larger of two equally
\* near, written with f fraction digits
ToFixed(x, f) ==
    IF x.k # "num" THEN NaNText
    ELSE LET n == IF x.m = <<>> THEN 0
                  ELSE BigToNat(ShiftRight(
                           AddBig(MulSmall(x.m, 2 * Pow10(f)), ShiftLeft(<<1>>, 0 - x.e)),
                           1 - x.e))
         IN  NatToStr(n \div Pow10(f))
             \o (IF f = 0 THEN <<>> ELSE <<".">> \o PadDigits(n % Pow10(f), f))

\* `${n}` for the value of Math.ceil
WholeText(x) == IF x.k = "whole" THEN NatToStr(x.v) ELSE NaNText

\* the unit suffixes " m." and " km." of the templates (Thai abbreviations in
\* the source), " min" and " baht"
Meters     == <<" ", "m", ".">>
Kilometers == <<" ", "k", "m", ".">>
Minutes    == <<" ", "m", "i", "n">>
Baht       == <<" ", "b", "a", "h", "t">>

\* formatPlace, lines 78-81: distStr from the distance in kilometers
DistStr(distKm) ==
    IF LessThan(distKm, 1) THEN ToFixed(Times(distKm, 1000), 0) \o Meters
    ELSE ToFixed(distKm, 1) \o Kilometers

\* suggestRoute, lines 227-230: a step's distance from the distance in meters
StepDistance(distance) ==
    IF LessThan(distance, 1000) THEN ToFixed(distance, 0) \o Meters
    ELSE ToFixed(DivBy(distance, 1000), 1) \o Kilometers

(***************************************************************************)
(* translateDirection and translateInstruction.  A text is the sequence of *)
(* the non-empty fragments it is concatenated from; the Thai phrases of    *)
(* the templates are written in Latin transcription.                       *)
(***************************************************************************)
Text(fragments) == SelectSeq(fragments, LAMBDA f : f # "")

\* a string argument that JavaScript takes as true: present and not empty
TruthyString(o) == o # None /\ o[1] # ""

\* `${value}` of an optional string
Interpolated(o) == IF o = None THEN "undefined" ELSE o[1]

DirectionMap ==
    [ left |-> "sai", right |-> "khwa",
      slight_left |-> "biang sai", slight_right |-> "biang khwa",
      sharp_left |-> "sai hak sok", sharp_right |-> "khwa hak sok",
      straight |-> "trong pai", uturn |-> "klap rot" ]

\* lines 61-74
TranslateDirection(modifier) ==
    IF ~TruthyString(modifier) THEN ""
    ELSE CASE modifier[1] = "left" -> DirectionMap.left
           [] modifier[1] = "right" -> DirectionMap.right
           [] modifier[1] = "slight left" -> DirectionMap.slight_left
           [] modifier[1] = "slight right" -> DirectionMap.slight_right
           [] modifier[1] = "sharp left" -> DirectionMap.sharp_left
           [] modifier[1] = "sharp right" -> DirectionMap.sharp_right
           [] modifier[1] = "straight" -> DirectionMap.straight
           [] modifier[1] = "uturn" -> DirectionMap.uturn
           [] OTHER -> modifier[1]

KnownTypes ==
    { "depart", "arrive", "turn", "merge", "on ramp", "off ramp", "fork",
      "end of road", "roundabout", "rotary", "exit roundabout", "new name",
      "continue", "notification" }

\* the default case with the road left out
FallbackWithoutRoad(type, dir, roadPrefix, roadName) ==
    <<Interpolated(type), " ", dir, " ">>

\* line 116: `${type} ${dir} ${roadPrefix}${roadName}`
Fallback(type, dir, roadPrefix, roadName) ==
    <<Interpolated(type), " ", dir, " ", roadPrefix>> \o roadName

\* lines 76-118
TranslateInstruction(type, modifier, name) ==
    LET dir == TranslateDirection(modifier)
        roadName == IF TruthyString(name) /\ name[1] # "road"
                    THEN <<" ", name[1]>> ELSE <<>>
        roadPrefix == IF roadName # <<>> THEN "khao su" ELSE ""
        t == Interpolated(type)
    IN  Text(
        CASE t = "depart" ->
               <<"roem ton mung na pai thang", dir, " ">>
               \o (IF TruthyString(name) THEN <<"pai tam">> \o roadName ELSE <<>>)
          [] t = "arrive" ->
               <<"thueng chut mai">>
               \o (IF roadName # <<>> THEN <<" thi">> \o roadName ELSE <<>>)
          [] t = "turn" -> <<"liao", dir, " ", roadPrefix>> \o roadName
          [] t = "merge" -> <<"biang", dir, " phuea chueam to kap">> \o roadName
          [] t = "on ramp" ->
               <<"chit", dir, " phuea khuen thang lat/thang duan">> \o roadName
          [] t = "off ramp" ->
               <<"chit", dir, " phuea long chak thang lat/thang duan">> \o roadName
          [] t = "fork" -> <<"thi thang yaek chit", dir, " ", roadPrefix>> \o roadName
          [] t = "end of road" -> <<"liao", dir, " muea sut thang">> \o roadName
          [] t = "roundabout" -> <<"thi wong wian chai thang ok", dir>>
          [] t = "rotary" -> <<"khao wong wian ", roadPrefix>> \o roadName
          [] t = "exit roundabout" -> <<"ok chak wong wian ", roadPrefix>> \o roadName
          [] t = "new name" -> <<"khap to pai yang">> \o roadName
          [] t = "continue" -> <<"khap to pai yang">> \o roadName
          [] t = "notification" -> <<"prot rawang: ", dir>>
          [] OTHER -> Fallback(type, dir, roadPrefix, roadName))

(***************************************************************************)
(* suggestRoute, the OSRM-backed variant (apiService.ts).  The numbers of  *)
(* a response body are written in tenths (OSRM reports meters and seconds  *)
(* with one decimal place); a missing field is None.                       *)
(***************************************************************************)
\* the JavaScript number of an optional field written in tenths
NumberOf(o) == IF o = None THEN Undefined ELSE DoubleOf(o[1], 10)

RoutingFailedMessage == "RoutingFailed"

RPending          == [kind |-> "pending", value |-> <<>>, message |-> ""]
RResult(value)    == [kind |-> "result",  value |-> value, message |-> ""]
RFailure(message) == [kind |-> "error",   value |-> <<>>, message |-> message]

\* Math.floor(x), or NaN
Floor(x) ==
    IF x.k # "num" THEN NaN
    ELSE IF x.m = <<>> THEN Whole(0)
    ELSE Whole(BigToNat(ShiftRight(x.m, 0 - x.e)))

\* the minutes rounded down
MinutesTextDown(seconds) == WholeText(Floor(DivBy(seconds, 60))) \o Minutes

\* lines 231, 236 and 247: `${Math.ceil(seconds / 60)} min`
MinutesText(seconds) == WholeText(Ceil(DivBy(seconds, 60))) \o Minutes

\* lines 221-233: the callback of steps.map; reading step.maneuver.type of a
\* step without maneuver throws (None)
MapStep(step) ==
    IF step.maneuver = None THEN None
    ELSE Some([instruction |-> TranslateInstruction(step.maneuver[1].type,
                                                      step.maneuver[1].modifier,
                                                      step.name),
               distance |-> StepDistance(NumberOf(step.distance)),
               duration |-> MinutesText(NumberOf(step.duration)),
               mode |-> "car"])

\* the estimate with 5 per kilometer
CostTextFive(totalDistKm) ==
    <<"~">> \o WholeText(Ceil(Plus(35, Times(totalDistKm, 5)))) \o Baht

\* lines 237 and 249: `~${Math.ceil(35 + totalDistKm * 6)} baht`
CostText(totalDistKm) ==
    <<"~">> \o WholeText(Ceil(Plus(35, Times(totalDistKm, 6)))) \o Baht

\* the pair kept as it is
KeepPair(coord) == coord

\* line 241: [coord[1], coord[0]]
SwapPair(coord) == <<Elem(coord, 1), Elem(coord, 0)>>

\* lines 214-255 on the parsed body; None where the code throws
OsrmOption(data) ==
    IF data.null THEN None
    ELSE IF data.routes = None THEN None
    ELSE IF data.routes[1] = <<>> THEN None
    ELSE LET route == data.routes[1][1]
         IN  IF route.legs = None THEN None
             ELSE IF route.legs[1] = <<>> THEN None
             ELSE IF route.legs[1][1].steps = None THEN None
             ELSE LET in == route.legs[1][1].steps[1]
                      mapped == [i \in 1..Len(in) |-> MapStep(in[i])]
                      totalDistKm == DivBy(NumberOf(route.distance), 1000)
                  IN  IF \E i \in 1..Len(in) : mapped[i] = None THEN None
                      ELSE IF route.geometry = None THEN None
                      ELSE IF route.geometry[1].coordinates = None THEN None
                      ELSE LET coords == route.geometry[1].coordinates[1]
                           IN  Some([id |-> "osrm-driving",
                                     title |-> "car / taxi",
                                     totalDuration |-> MinutesText(NumberOf(route.duration)),
                                     totalDistance |-> ToFixed(totalDistKm, 1) \o Kilometers,
                                     totalCost |-> CostText(totalDistKm),
                                     steps |-> [i \in 1..Len(in) |-> mapped[i][1]],
                                     recommended |-> Some(TRUE),
                                     coordinates |->
                                         Some([i \in 1..Len(coords) |-> SwapPair(coords[i])])])

\* lines 207-259 after the body is parsed: the catch block rethrows the
\* fixed error
OsrmOutcome(data) ==
    IF OsrmOption(data) = None THEN RFailure(RoutingFailedMessage)
    ELSE RResult(<<OsrmOption(data)[1]>>)

(***************************************************************************)
(* The bodies the routing engine may answer with:                          *)
(*   { routes: [ { distance, duration, geometry: { coordinates },          *)
(*                 legs: [ { steps: [ { maneuver: { type, modifier },      *)
(*                                      name, distance, duration } ] } ] } *)
(***************************************************************************)
Optional(S) == {None} \cup {Some(x) : x \in S}

ManeuverTypes == Optional(KnownTypes \cup {"custom_maneuver", ""})
Modifiers     == Optional({"", "left", "sharp right", "uturn", "northish"})
RoadNames     == Optional({"", "road", "Sukhumvit"})

\* tenths of a meter and tenths of a second
StepTenths     == {0, 4, 5, 5005, 9994, 9995, 10000, 10500, 12345}
RouteTenths    == {0, 5000, 9995, 10000, 16667, 100000, 123456}
DurationTenths == {0, 1, 600, 601, 610, 36000}

Step(type, modifier, name, distance, duration) ==
    [maneuver |-> Some([type |-> type, modifier |-> modifier]), name |-> name,
     distance |-> distance, duration |-> duration]

DepartStep == Step(Some("depart"), None, Some("Rama IV"), Some(2500), Some(450))
ArriveStep == Step(Some("arrive"), Some("right"), Some(""), Some(0), Some(0))
StepWithoutManeuver ==
    [maneuver |-> None, name |-> Some("Sukhumvit"), distance |-> Some(5005),
     duration |-> Some(600)]

\* one step of every type, modifier and road name
InstructionSteps ==
    { Step(t, m, n, Some(12345), Some(610)) :
        t \in ManeuverTypes, m \in Modifiers, n \in RoadNames }

\* one step of every distance and duration
NumberSteps ==
    { Step(Some("turn"), Some("left"), Some("Sukhumvit"), d, u) :
        d \in Optional(StepTenths), u \in Optional(DurationTenths) }

StepLists ==
    {<<>>}
    \cup { <<s>> : s \in InstructionSteps \cup NumberSteps \cup {StepWithoutManeuver} }
    \cup { <<DepartStep, s, ArriveStep>> :
             s \in { Step(Some("custom_maneuver"), m, Some("Sukhumvit"), Some(9995), Some(601)) :
                       m \in Modifiers } \cup {StepWithoutManeuver} }

\* GeoJSON positions [lng, lat]
Points ==
    { <<Num(Dec(100, 50)), Num(Dec(13, 75))>>, <<Num(Dec(100, 53)), Num(Dec(13, 72))>> }

CoordLists == UNION { [1..n -> Points] : n \in 0..MaxCoords }

Route(distance, duration, coordinates, steps) ==
    [distance |-> distance, duration |-> duration,
     geometry |-> Some([coordinates |-> Some(coordinates)]),
     legs |-> Some(<<[steps |-> Some(steps)]>>)]

PlainPath  == CHOOSE c \in CoordLists : Len(c) = 2 /\ c[1] # c[2]
PlainSteps == <<DepartStep, ArriveStep>>
PlainRoute == Route(Some(100000), Some(36000), PlainPath, PlainSteps)

OsrmRoutes ==
    { Route(Some(34567), Some(4500), PlainPath, steps) : steps \in StepLists }
    \cup { Route(d, u, PlainPath, PlainSteps) :
             d \in Optional(RouteTenths), u \in Optional(DurationTenths) }
    \cup { Route(Some(100000), Some(36000), c, PlainSteps) : c \in CoordLists }
    \cup { [PlainRoute EXCEPT !.geometry = None],
           [PlainRoute EXCEPT !.geometry = Some([coordinates |-> None])],
           [PlainRoute EXCEPT !.legs = None],
           [PlainRoute EXCEPT !.legs = Some(<<>>)],
           [PlainRoute EXCEPT !.legs = Some(<<[steps |-> None]>>)],
           [PlainRoute EXCEPT !.legs =
              Some(<<[steps |-> Some(<<DepartStep>>)], [steps |-> Some(<<ArriveStep>>)]>>)] }

\* the parsed body: null, an object without routes (an error answer such as
\* { code: "NoRoute" }), no route, one route, or a route and an alternative
OsrmData ==
    { [null |-> TRUE, routes |-> None], [null |-> FALSE, routes |-> None],
      [null |-> FALSE, routes |-> Some(<<>>)] }
    \cup { [null |-> FALSE, routes |-> Some(<<r>>)] : r \in OsrmRoutes }
    \cup { [null |-> FALSE, routes |-> Some(<<r, PlainRoute>>)] :
             r \in { Route(Some(5000), Some(600), PlainPath, PlainSteps),
                     [PlainRoute EXCEPT !.legs = None] } }

(***************************************************************************)
(* suggestRoute, the generative-model-backed variant (part_000): the list  *)
(* the model's JSON text parses to is returned as it is.                   *)
(***************************************************************************)
PlannedOption(recommended) ==
    [id |-> "1", title |-> "BTS + taxi", totalDuration |-> <<"45 mins">>,
     totalDistance |-> <<>>, totalCost |-> <<"60-100 THB">>,
     steps |-> << [instruction |-> <<"BTS Siam">>, distance |-> <<>>,
                   duration |-> <<"10 mins">>, mode |-> "train"] >>,
     recommended |-> recommended, coordinates |-> None]

\* recommended is not required by the response schema
PlannedLists ==
    UNION { [1..n -> {PlannedOption(r) : r \in Optional(BOOLEAN)}] : n \in 0..MaxOptions }

\* response.text: None (no text), or a text that parses (json) or does not
GeminiRouteTexts ==
    { None, Some([json |-> None]) } \cup { Some([json |-> Some(l)]) : l \in PlannedLists }

\* lines 220-227 of part_000
GeminiRouteOutcome(text) ==
    IF text = None THEN RFailure(RoutingFailedMessage)
    ELSE IF text[1].json = None THEN RFailure(RoutingFailedMessage)
    ELSE RResult(text[1].json[1])

(***************************************************************************)
(* suggestRoute as a process.                                              *)
(***************************************************************************)
Planners == {"osrm", "gemini"}

RoutePlaces ==
    { [lat |-> Num(Dec(13, 75)), lng |-> Num(Dec(100, 50))],
      [lat |-> Num(Dec(13, 72)), lng |-> Num(Dec(100, 53))] }

Trips ==
    { t \in [origin : RoutePlaces, destination : RoutePlaces] : t.origin # t.destination }

RouteIdle(p) ==
    /\ planner = p /\ rpc = "idle" /\ rsent = <<>> /\ rdata = None
    /\ trip = [origin |-> [lat |-> Num(0), lng |-> Num(0)],
               destination |-> [lat |-> Num(0), lng |-> Num(0)]]
    /\ routes = RPending

\* the call, up to the await of the one outbound request
SuggestRoute ==
    /\ rpc = "idle"
    /\ \E t \in Trips :
         /\ trip' = t
         /\ rsent' = Fetch(rsent, [to |-> planner, origin |-> t.origin,
                                   destination |-> t.destination])
    /\ rpc' = "fetch"
    /\ UNCHANGED <<planner, rdata, routes>>
    /\ UNCHANGED <<searchVars, analyzeVars, appVars, mapVars>>

\* the awaited request rejects: the catch block throws the fixed error
RouteRequestRejects ==
    /\ rpc = "fetch"
    /\ rpc' = "done"
    /\ routes' = RFailure(RoutingFailedMessage)
    /\ UNCHANGED <<planner, trip, rsent, rdata>>
    /\ UNCHANGED <<searchVars, analyzeVars, appVars, mapVars>>

\* OSRM: await fetch resolves, response.json() is awaited
OsrmFetchResolves ==
    /\ planner = "osrm" /\ rpc = "fetch"
    /\ rpc' = "json"
    /\ UNCHANGED <<planner, trip, rsent, rdata, routes>>
    /\ UNCHANGED <<searchVars, analyzeVars, appVars, mapVars>>

\* OSRM: the body is not JSON
OsrmJsonRejects ==
    /\ planner = "osrm" /\ rpc = "json"
    /\ rpc' = "done"
    /\ routes' = RFailure(RoutingFailedMessage)
    /\ UNCHANGED <<planner, trip, rsent, rdata>>
    /\ UNCHANGED <<searchVars, analyzeVars, appVars, mapVars>>

\* OSRM: the body parses to data, one of D, and the rest of the function runs
OsrmJsonResolvesFrom(D) ==
    /\ planner = "osrm" /\ rpc = "json"
    /\ \E data \in D :
         /\ rdata' = Some(data)
         /\ routes' = OsrmOutcome(data)
    /\ rpc' = "done"
    /\ UNCHANGED <<planner, trip, rsent>>
    /\ UNCHANGED <<searchVars, analyzeVars, appVars, mapVars>>

OsrmJsonResolves == OsrmJsonResolvesFrom(OsrmData)

\* Gemini: generateContent resolves with a text, one of T, and the rest of
\* the function runs
GeminiRouteResolvesFrom(T) ==
    /\ planner = "gemini" /\ rpc = "fetch"
    /\ \E text \in T :
         /\ rdata' = Some(text)
         /\ routes' = GeminiRouteOutcome(text)
    /\ rpc' = "done"
    /\ UNCHANGED <<planner, trip, rsent>>
    /\ UNCHANGED <<searchVars, analyzeVars, appVars, mapVars>>

GeminiRouteResolves == GeminiRouteResolvesFrom(GeminiRouteTexts)

\* the caller has the settled promise and may call again
RouteReturns ==
    /\ rpc = "done" /\ Len(rsent) < MaxCalls
    /\ rpc' = "idle"
    /\ rdata' = None
    /\ routes' = RPending
    /\ UNCHANGED <<planner, trip, rsent>>
    /\ UNCHANGED <<searchVars, analyzeVars, appVars, mapVars>>

RouteNext ==
    \/ SuggestRoute \/ RouteRequestRejects
    \/ OsrmFetchResolves \/ OsrmJsonRejects \/ OsrmJsonResolves
    \/ GeminiRouteResolves

\* the services called again and again, on a few answers of each kind
FewOverpassData ==
    { d \in OverpassData : d.elements = None \/ Len(d.elements[1]) = 0 }
    \cup { [null |-> FALSE, elements |-> Some(<<Element(1, Some(t))>>)] : t \in Palette }

FewGeminiTexts ==
    { t \in GeminiTexts : t = None \/ t[1].json = None }
    \cup { Some([json |-> Some(o)]) :
             o \in { g \in GeminiObjects : Len(g.residential[1]) = 1 /\ Len(g.food[1]) = 0 } }

FewOsrmData ==
    { d \in OsrmData : d.routes = None \/ Len(d.routes[1]) # 1 }

FewGeminiRouteTexts ==
    { t \in GeminiRouteTexts : t = None \/ t[1].json = None \/ Len(t[1].json[1]) <= 1 }

CallsNext ==
    \/ AnalyzeLocation \/ AnalyzeRequestRejects
    \/ OverpassFetchResolves \/ OverpassJsonRejects
    \/ OverpassJsonResolvesFrom(FewOverpassData)
    \/ GeminiResolvesFrom(FewGeminiTexts)
    \/ AnalyzeReturns
    \/ SuggestRoute \/ RouteRequestRejects
    \/ OsrmFetchResolves \/ OsrmJsonRejects
    \/ OsrmJsonResolvesFrom(FewOsrmData)
    \/ GeminiRouteResolvesFrom(FewGeminiRouteTexts)
    \/ RouteReturns

(***************************************************************************)
(* The application (src/App.tsx lines 129-300, src/components/Controls.tsx *)
(* and the map components).  `app` is the state of the App component, one  *)
(* field per useState; `controls` that of Controls.  App.tsx links the     *)
(* Overpass-backed analyzeLocation and the OSRM-backed suggestRoute.  A    *)
(* handler runs to its first await in one step and from the settled await  *)
(* to its end in another; what it read from its render (props and state    *)
(* captured by the closure) travels with the operation in `pending`.  The  *)
(* radius slider stays where it is and the sidebar open.                   *)
(***************************************************************************)
\* App.tsx line 143, { lat: 13.7563, lng: 100.5018 }, to FracDigits digits
DEFAULT_CENTER == [lat |-> Num(Dec(13, 75)), lng |-> Num(Dec(100, 50))]
DEFAULT_RADIUS == 1000

AppIdle ==
    /\ app = [center |-> DEFAULT_CENTER, destination |-> None,
              radius |-> DEFAULT_RADIUS, status |-> "IDLE",
              analysis |-> None, routes |-> None, selectedRoute |-> None,
              sidebarOpen |-> TRUE, viewMode |-> "markers"]
    /\ controls = [isSearching |-> FALSE, urlError |-> FALSE]
    /\ pending = EmptyBag

\* handleLocationUpdate that leaves selectedRoute alone
HandleLocationUpdateKeepingSelection(a, loc, isDestination, viewMode) ==
    IF isDestination
    THEN [a EXCEPT !.destination = Some(loc), !.routes = None]
    ELSE LET moved == [a EXCEPT !.center = loc, !.routes = None]
         IN  IF viewMode # "route"
             THEN [moved EXCEPT !.status = "IDLE", !.analysis = None]
             ELSE moved

\* App.tsx lines 161-179; viewMode is the one of the render that created
\* the function
HandleLocationUpdate(a, loc, isDestination, viewMode) ==
    IF isDestination
    THEN [a EXCEPT !.destination = Some(loc), !.routes = None, !.selectedRoute = None]
    ELSE LET moved == [a EXCEPT !.center = loc, !.routes = None, !.selectedRoute = None]
         IN  IF viewMode # "route"
             THEN [moved EXCEPT !.status = "IDLE", !.analysis = None]
             ELSE moved

\* how often the operation o is in the bag b
Copies(b, o) == IF o \in BagToSet(b) THEN b[o] ELSE 0

\* the operation o of pending has settled
Settled(o) == pending (-) SetToBag({o})

\* the operation o has begun, those pending cancelled
BegunAlone(o) == SetToBag({o})

\* the operation o has begun
Begun(o) == pending (+) SetToBag({o})

\* the operations of the given kinds that are pending
PendingOf(kinds) == {o \in BagToSet(pending) : o.kind \in kinds}

\* what each kind of operation keeps from the render that began it
AnalyzeCall(location, radiusMeters) ==
    [kind |-> "analyze", location |-> location, radiusMeters |-> radiusMeters]
RouteCall(origin, destination) ==
    [kind |-> "route", origin |-> origin, destination |-> destination]
SearchCall(isDest, viewMode) == [kind |-> "search", isDest |-> isDest, viewMode |-> viewMode]
LocateCall(viewMode) == [kind |-> "locate", viewMode |-> viewMode]

\* where the user can point on the map, and where the device can be
MapPlaces == RoutePlaces

\* what searchLocation resolves with: a place, or the top candidate of a
\* geocoder as it is (ArcGISTry returns location.y unchecked)
SearchResults ==
    MapPlaces \cup {[lat |-> Num(Dec(95, 0)), lng |-> Num(Dec(100, 50))]}

(***************************************************************************)
(* handleUrlImport (Controls.tsx lines 101-124) and its                    *)
(* latLngRegex = /(?:[@?&](?:q=|ll=)?|^)([-+]?\d+\.\d+)\s*,\s*([-+]?\d+\.\d+)/ *)
(***************************************************************************)
RECURSIVE SpaceRun(_, _)
SpaceRun(s, i) == IF IsSpace(At(s, i)) THEN 1 + SpaceRun(s, i + 1) ELSE 0

StartsWith(s, i, word) ==
    /\ i + Len(word) - 1 <= Len(s)
    /\ SubSeq(s, i, i + Len(word) - 1) = word

\* the position after \s*,\s* from position e, or 0
AfterComma(s, e) ==
    LET c == e + SpaceRun(s, e)
    IN  IF At(s, c) = "," THEN c + 1 + SpaceRun(s, c + 1) ELSE 0

\* ([-+]?\d+\.\d+)\s*,\s*([-+]?\d+\.\d+) from position j
PairAt(s, j) ==
    LET C1 == {c \in NumMatches(s, j, Len(s)) :
                 AfterComma(s, c.e) # 0
                 /\ NumMatches(s, AfterComma(s, c.e), Len(s)) # {}}
    IN  IF C1 = {} THEN NoMatch
        ELSE LET c1 == Preferred(C1)
                 k  == AfterComma(s, c1.e)
                 c2 == Preferred(NumMatches(s, k, Len(s)))
             IN  [found |-> TRUE,
                  g1 |-> SubSeq(s, j, c1.e - 1),
                  g2 |-> SubSeq(s, k, c2.e - 1)]

\* the lengths of the text (?:[@?&](?:q=|ll=)?|^) can match at position i,
\* in the order the matcher tries them
LeadLengths(s, i) ==
    (IF At(s, i) \in {"@", "?", "&"}
     THEN (IF StartsWith(s, i + 1, <<"q", "=">>) THEN <<3>> ELSE <<>>)
          \o (IF StartsWith(s, i + 1, <<"l", "l", "=">>) THEN <<4>> ELSE <<>>)
          \o <<1>>
     ELSE <<>>)
    \o (IF i = 1 THEN <<0>> ELSE <<>>)

UrlMatchAt(s, i) ==
    LET leads == LeadLengths(s, i)
        hits == {n \in 1..Len(leads) : PairAt(s, i + leads[n]).found}
    IN  IF hits = {} THEN NoMatch ELSE PairAt(s, i + leads[SetMin(hits)])

\* urlQuery.match(latLngRegex)
UrlMatch(s) ==
    LET starts == {i \in 1..Len(s) : UrlMatchAt(s, i).found}
    IN  IF starts = {} THEN NoMatch ELSE UrlMatchAt(s, SetMin(starts))

\* the links the user pastes: a maps link, a query link, bare coordinates,
\* coordinates that are no place on Earth, and a link without coordinates
UrlQueries ==
    { <<"m", "/", "@", "1", "3", ".", "7", "2", ",", "1", "0", "0", ".", "5", "3", ",", "1", "5", "z">>,
      <<"?", "q", "=", "1", "3", ".", "7", "5", ",", " ", "1", "0", "0", ".", "5", "0">>,
      <<"9", "5", ".", "0", "0", ",", "1", "0", "0", ".", "5", "0">>,
      <<"&", "l", "l", "=", "+", "1", "3", ".", "7", "5", ",", "1", "0", "0", ".", "5", "0">>,
      <<"m", "/", "p", "l", "a", "c", "e">>,
      <<" ">> }

\* lines 101-124 on a pasted link: nothing for a blank one, the location
\* handed to onLocationSelect, or the error shown
Blank       == [kind |-> "blank", lat |-> Undefined, lng |-> Undefined]
NotImported == [kind |-> "error", lat |-> Undefined, lng |-> Undefined]
Imported(lat, lng) == [kind |-> "location", lat |-> lat, lng |-> lng]

UrlImport(urlQuery) ==
    IF Trim(urlQuery) = <<>> THEN Blank
    ELSE LET match == UrlMatch(urlQuery)
             lat == ParseFloat(match.g1)
             lng == ParseFloat(match.g2)
         IN  IF match.found /\ lat.k # "NaN" /\ lng.k # "NaN"
             THEN Imported(lat, lng)
             ELSE NotImported

UrlImports == {UrlImport(urlQuery) : urlQuery \in UrlQueries}

ImportedPlaces == {[lat |-> o.lat, lng |-> o.lng] : o \in {u \in UrlImports : u.kind = "location"}}

\* the bodies the Overpass service answers the application's requests with
AppOverpassData ==
    { [null |-> FALSE, elements |-> None],
      [null |-> FALSE,
       elements |-> Some(<<Element(1, Some([NoTags EXCEPT !["amenity"] = Some("cafe")]))>>)] }

\* what analyzeLocation settles with for each of its arguments
AppPlaces == MapPlaces \cup SearchResults \cup ImportedPlaces

AnalyzeOutcomes ==
    [location \in AppPlaces |-> {OverpassOutcome(location, data) : data \in AppOverpassData}]

\* the bodies the routing engine answers the application's requests with
AppOsrmData ==
    { [null |-> FALSE, routes |-> None],
      [null |-> FALSE, routes |-> Some(<<PlainRoute>>)],
      [null |-> FALSE,
       routes |-> Some(<<Route(Some(5000), Some(600), PlainPath, PlainSteps), PlainRoute>>)] }

\* what suggestRoute settles with
RouteOutcomes == {OsrmOutcome(data) : data \in AppOsrmData}

(***************************************************************************)
(* The handlers.                                                           *)
(***************************************************************************)
\* the end of the try block and the catch block of handleAnalyze and
\* handleCalculateRoute (App.tsx lines 206-211 and 222-232)
Succeeded(a) == [a EXCEPT !.status = "SUCCESS", !.sidebarOpen = TRUE]

FailedSilently(a) == a

Failed(a) == [a EXCEPT !.status = "ERROR"]

\* LocationSelector, lines 422-427: a click outside route mode moves the center
MapClick ==
    /\ app.viewMode # "route"
    /\ \E loc \in MapPlaces :
         app' = HandleLocationUpdate(app, loc, FALSE, app.viewMode)
    /\ UNCHANGED <<controls, pending>>
    /\ UNCHANGED <<searchVars, analyzeVars, routeVars, mapVars>>

\* LocationSelector, lines 428-432: a right click in route mode sets the
\* destination
MapContextMenu ==
    /\ app.viewMode = "route"
    /\ \E loc \in MapPlaces :
         app' = HandleLocationUpdate(app, loc, TRUE, app.viewMode)
    /\ UNCHANGED <<controls, pending>>
    /\ UNCHANGED <<searchVars, analyzeVars, routeVars, mapVars>>

\* the view modes the user switches between: the two tabs
ViewModes == {"markers", "route"}

\* Controls.tsx lines 238 and 248 (the tabs), 323 and 332 (the layer
\* buttons, rendered outside route mode)
SetViewMode ==
    /\ \E mode \in ViewModes :
         /\ mode = "heatmap" => app.viewMode # "route"
         /\ mode # app.viewMode
         /\ app' = [app EXCEPT !.viewMode = mode]
    /\ UNCHANGED <<controls, pending>>
    /\ UNCHANGED <<searchVars, analyzeVars, routeVars, mapVars>>

\* handleAnalyze up to its await (App.tsx lines 200-204); the button is
\* rendered outside route mode and disabled while status is LOADING
\* (Controls.tsx lines 353-355)
HandleAnalyze ==
    /\ app.viewMode # "route"
    /\ app.status # "LOADING"
    /\ BagCardinality(pending) < MaxPending
    /\ app' = [app EXCEPT !.status = "LOADING", !.analysis = None]
    /\ pending' = Begun(AnalyzeCall(app.center, app.radius))
    /\ UNCHANGED controls
    /\ UNCHANGED <<searchVars, analyzeVars, routeVars, mapVars>>

\* handleAnalyze from its await on (App.tsx lines 204-211)
AnalyzeSettles ==
    \E i \in PendingOf({"analyze"}) :
      \E outcome \in AnalyzeOutcomes[i.location] :
          /\ app' = IF outcome.kind = "result"
                    THEN Succeeded([app EXCEPT !.analysis = Some(outcome.value)])
                    ELSE Failed(app)
          /\ pending' = Settled(i)
          /\ UNCHANGED controls
          /\ UNCHANGED <<searchVars, analyzeVars, routeVars, mapVars>>

\* handleCalculateRoute up to its await (App.tsx lines 214-220); the button
\* is rendered in route mode and disabled while status is LOADING or
\* without a destination (Controls.tsx lines 530-532)
HandleCalculateRoute ==
    /\ app.viewMode = "route"
    /\ app.status # "LOADING"
    /\ app.destination # None
    /\ BagCardinality(pending) < MaxPending
    /\ app' = [app EXCEPT !.status = "LOADING", !.routes = None, !.selectedRoute = None]
    /\ pending' = Begun(RouteCall(app.center, app.destination[1]))
    /\ UNCHANGED controls
    /\ UNCHANGED <<searchVars, analyzeVars, routeVars, mapVars>>

\* handleCalculateRoute from its await on (App.tsx lines 220-232)
RouteSettles ==
    \E i \in PendingOf({"route"}), outcome \in RouteOutcomes :
      LET results == outcome.value
      IN  /\ app' = IF outcome.kind = "result"
                    THEN Succeeded([app EXCEPT
                                      !.routes = Some(results),
                                      !.selectedRoute =
                                         IF Len(results) > 0 THEN Some(results[1]) ELSE @])
                    ELSE Failed(app)
          /\ pending' = Settled(i)
          /\ UNCHANGED controls
          /\ UNCHANGED <<searchVars, analyzeVars, routeVars, mapVars>>

\* handleSearch up to its await (Controls.tsx lines 84-90), with a query
\* that is not blank.  The center form is rendered outside route mode and
\* disabled while isSearching (lines 271-284); the destination form in
\* route mode while there is no destination (lines 500-513)
HandleSearch ==
    /\ \E isDest \in BOOLEAN :
         /\ IF isDest THEN app.viewMode = "route" /\ app.destination = None
            ELSE app.viewMode # "route" /\ ~controls.isSearching
         /\ pending' = Begun(SearchCall(isDest, app.viewMode))
    /\ BagCardinality(pending) < MaxPending
    /\ controls' = [controls EXCEPT !.isSearching = TRUE]
    /\ UNCHANGED app
    /\ UNCHANGED <<searchVars, analyzeVars, routeVars, mapVars>>

\* handleSearch from its await on (Controls.tsx lines 91-99):
\* onLocationSelect is the handleLocationUpdate of the render in which the
\* form was submitted
SearchSettles ==
    /\ \E i \in PendingOf({"search"}) :
         /\ \/ \E coords \in SearchResults :
                 app' = HandleLocationUpdate(app, coords, i.isDest,
                                             i.viewMode)
            \/ UNCHANGED app
         /\ pending' = Settled(i)
    /\ controls' = [controls EXCEPT !.isSearching = FALSE]
    /\ UNCHANGED <<searchVars, analyzeVars, routeVars, mapVars>>

\* the form is rendered outside route mode; onLocationSelect is called
\* without isDestination
HandleUrlImport ==
    /\ app.viewMode # "route"
    /\ \E imported \in UrlImports :
         /\ app' = IF imported.kind = "location"
                   THEN HandleLocationUpdate(app, [lat |-> imported.lat, lng |-> imported.lng],
                                             FALSE, app.viewMode)
                   ELSE app
         /\ controls' = [controls EXCEPT !.urlError = (imported.kind = "error")]
    /\ UNCHANGED pending
    /\ UNCHANGED <<searchVars, analyzeVars, routeVars, mapVars>>

\* handleLocateMe up to the position callback (App.tsx lines 181-183); the
\* button is rendered in route mode (Controls.tsx lines 484-488)
HandleLocateMe ==
    /\ app.viewMode = "route"
    /\ BagCardinality(pending) < MaxPending
    /\ pending' = Begun(LocateCall(app.viewMode))
    /\ UNCHANGED <<app, controls>>
    /\ UNCHANGED <<searchVars, analyzeVars, routeVars, mapVars>>

\* the position or the error callback (App.tsx lines 184-194):
\* handleLocationUpdate is the one of the render in which the button was
\* pressed
LocateSettles ==
    /\ \E i \in PendingOf({"locate"}) :
         /\ \/ \E loc \in MapPlaces :
                 app' = HandleLocationUpdate(app, loc, FALSE, i.viewMode)
            \/ UNCHANGED app
         /\ pending' = Settled(i)
    /\ UNCHANGED controls
    /\ UNCHANGED <<searchVars, analyzeVars, routeVars, mapVars>>

\* the destination's Clear control (Controls.tsx lines 516-525), rendered
\* in route mode while there is a destination
ClearDestination ==
    /\ app.viewMode = "route"
    /\ app.destination # None
    /\ app' = HandleLocationUpdate(app, app.center, TRUE, app.viewMode)
    /\ UNCHANGED <<controls, pending>>
    /\ UNCHANGED <<searchVars, analyzeVars, routeVars, mapVars>>

\* toggleRouteExpand (Controls.tsx lines 126-132) on a card of the route
\* list, rendered in route mode when status is SUCCESS and routes is set
\* (lines 566-588)
ToggleRouteExpand ==
    /\ app.viewMode = "route"
    /\ app.status = "SUCCESS"
    /\ app.routes # None
    /\ \E n \in 1..Len(app.routes[1]) :
         LET route == app.routes[1][n]
         IN  app' = [app EXCEPT !.selectedRoute =
                        IF @ # None /\ @[1].id = route.id THEN None ELSE Some(route)]
    /\ UNCHANGED <<controls, pending>>
    /\ UNCHANGED <<searchVars, analyzeVars, routeVars, mapVars>>

\* the requests of the application that are in flight
InFlight == PendingOf({"analyze", "route"})

AppNext ==
    \/ MapClick \/ MapContextMenu \/ SetViewMode
    \/ HandleAnalyze \/ AnalyzeSettles
    \/ HandleCalculateRoute \/ RouteSettles
    \/ HandleSearch \/ SearchSettles
    \/ HandleUrlImport
    \/ HandleLocateMe \/ LocateSettles
    \/ ClearDestination \/ ToggleRouteExpand

(***************************************************************************)
(* The map layers (HeatmapLayer and GeodesicCircle of src/App.tsx and      *)
(* src/components/MapView.tsx) and the distance of geminiService.ts work   *)
(* on numbers of either sign: a signed number is a sign and a magnitude,   *)
(* the magnitude a double as above.  The sum is computed exactly and       *)
(* rounded once.                                                           *)
(***************************************************************************)
Signed(neg, abs) == [neg |-> neg, abs |-> abs]

\* the decimal literal n / den, and its negation
Lit(n, den)  == Signed(FALSE, DoubleOf(n, den))
NegLit(n, den) == Signed(TRUE, DoubleOf(n, den))

IsZero(u) == u.abs.m = <<>>

RECURSIVE SubBorrow(_, _, _, _)
SubBorrow(a, b, i, borrow) ==
    IF i > Len(a) THEN <<>>
    ELSE LET t == a[i] - (IF i <= Len(b) THEN b[i] ELSE 0) - borrow
         IN  <<t % Base>> \o SubBorrow(a, b, i + 1, IF t < 0 THEN 1 ELSE 0)

\* a - b, for a >= b
SubBig(a, b) == Norm(SubBorrow(a, b, 1, 0))

\* the magnitudes of u and v as multiples of one power of two
Aligned(u, v) ==
    LET e == IF u.abs.e < v.abs.e THEN u.abs.e ELSE v.abs.e
    IN  [a |-> ShiftLeft(u.abs.m, u.abs.e - e), b |-> ShiftLeft(v.abs.m, v.abs.e - e), e |-> e]

\* u + v, with the aligned magnitudes w
AddAligned(u, v, w) ==
    IF u.neg = v.neg THEN Signed(u.neg, RoundBig(AddBig(w.a, w.b), w.e))
    ELSE IF LessBig(w.a, w.b) THEN Signed(v.neg, RoundBig(SubBig(w.b, w.a), w.e))
    ELSE IF LessBig(w.b, w.a) THEN Signed(u.neg, RoundBig(SubBig(w.a, w.b), w.e))
    ELSE Signed(FALSE, Double(<<>>, 0))

\* u + v
Add(u, v) == AddAligned(u, v, Aligned(u, v))

\* u < v, with the aligned magnitudes w
LessAligned(u, v, w) ==
    IF IsZero(u) /\ IsZero(v) THEN FALSE
    ELSE IF u.neg # v.neg THEN u.neg
    ELSE IF u.neg THEN LessBig(w.b, w.a) ELSE LessBig(w.a, w.b)

\* u < v
Less(u, v) == LessAligned(u, v, Aligned(u, v))

Neg(u) == Signed(~u.neg, u.abs)

\* u - v
Sub(u, v) == Add(u, Neg(v))

RECURSIVE MulBig(_, _)
MulBig(a, b) ==
    IF a = <<>> \/ b = <<>> THEN <<>>
    ELSE AddBig(MulSmall(a, b[1]), <<0>> \o MulBig(a, Tail(b)))

\* u * v
Mul(u, v) ==
    Signed(u.neg # v.neg, RoundBig(MulBig(u.abs.m, v.abs.m), u.abs.e + v.abs.e))

\* the limb i of b, 0 above its highest
LimbAt(b, i) == IF i <= Len(b) THEN b[i] ELSE 0

\* the digit hat or, when hat * b is more than r, the digit 1 or 2 below it
Corrected(r, b, hat) ==
    IF ~LessBig(r, MulSmall(b, hat)) THEN hat
    ELSE IF ~LessBig(r, MulSmall(b, hat - 1)) THEN hat - 1 ELSE hat - 2

\* the next digit of the long division of r by b, for r < b * Base and the
\* highest limb of b at least Base / 2: the estimate from the two highest
\* limbs of r is at most 2 too large
Digit(r, b) ==
    LET n == Len(b)
        est == (LimbAt(r, n + 1) * Base + LimbAt(r, n)) \div b[n]
    IN  Corrected(r, b, IF est >= Base THEN Base - 1 ELSE est)

\* long division of the limbs i..1 of a by b, from the quotient q and the
\* remainder r of the limbs above
RECURSIVE DivLimbs(_, _, _, _, _)

\* the digit of the limb i, for the remainder r2 with that limb
DivWith(a, b, i, q, r2, digit) ==
    IF digit = 0 /\ q = <<>> THEN DivLimbs(a, b, i - 1, <<>>, r2)
    ELSE DivLimbs(a, b, i - 1, <<digit>> \o q, SubBig(r2, MulSmall(b, digit)))

DivNext(a, b, i, q, r2) == DivWith(a, b, i, q, r2, Digit(r2, b))

DivLimbs(a, b, i, q, r) ==
    IF i = 0 THEN [q |-> q, r |-> r]
    ELSE DivNext(a, b, i, q, IF r = <<>> /\ a[i] = 0 THEN <<>> ELSE <<a[i]>> \o r)

\* quotient and remainder of a by b, the highest limb of b at least Base / 2
DivBig(a, b) == DivLimbs(a, b, Len(a), <<>>, <<>>)

\* the quotient d.q with a last bit that records a non-zero remainder
WithRemainder(d) == AddBig(MulSmall(d.q, 2), IF d.r = <<>> THEN <<>> ELSE <<1>>)

\* u / v for v # 0: the divisor is shifted to whole limbs, the quotient of
\* the magnitudes is taken to more than 53 bits and a last bit records a
\* non-zero remainder
Div(u, v) ==
    IF IsZero(u) THEN Signed(u.neg # v.neg, Double(<<>>, 0))
    ELSE LET up == (LimbBits - (MantissaBits % LimbBits)) % LimbBits
             s == MantissaBits + 3
         IN  Signed(u.neg # v.neg,
                    RoundBig(WithRemainder(DivBig(ShiftLeft(u.abs.m, s + up),
                                                  ShiftLeft(v.abs.m, up))),
                             u.abs.e - v.abs.e - s - 1))

\* u % v for v > 0: the remainder has the sign of u and is exact
RECURSIVE RemBig(_, _)
RemBig(a, b) == IF LessBig(a, b) THEN a ELSE RemBig(SubBig(a, b), b)

RemAligned(u, w) == Signed(u.neg, RoundBig(RemBig(w.a, w.b), w.e))

Rem(u, v) == RemAligned(u, Aligned(u, v))

\* a whole number
WholeNumber(n) == Signed(FALSE, RoundBig(NatToBig(n), 0))

\* whether the value counts as true in a condition: undefined and 0 do not
TruthyNumber(u) == u # Undefined /\ ~IsZero(u)

(***************************************************************************)
(* HeatmapLayer (src/App.tsx lines 671-717, src/components/MapView.tsx     *)
(* lines 347-402): the effect collects one point per item of the analysis. *)
(***************************************************************************)
\* Math.min(u, v)
MathMin(u, v) == IF Less(v, u) THEN v ELSE u

\* the body of the forEach in extract, lines 679-683: the points the item
\* adds
Extract(item) ==
    IF TruthyNumber(item.lat) /\ TruthyNumber(item.lng)
    THEN LET popular == IF TruthyNumber(item.popularity) THEN item.popularity ELSE Lit(5, 10)
             intensity == IF TruthyNumber(item.rating) /\ Less(Lit(45, 10), item.rating)
                          THEN Add(popular, Lit(2, 10))
                          ELSE popular
         IN  <<[lat |-> item.lat, lng |-> item.lng,
                intensity |-> MathMin(intensity, Lit(10, 10))]>>
    ELSE <<>>

RECURSIVE ExtractAll(_)
ExtractAll(items) ==
    IF items = <<>> THEN <<>> ELSE Extract(Head(items)) \o ExtractAll(Tail(items))

\* the items of an analysis that reach the layer: what formatPlace builds
\* (popularity 0.5, no rating), what the generative model answers (any
\* number for popularity and rating, part_000 lines 43-47 and 112), places
\* on the equator, places without coordinates
Popularities == {Undefined, Lit(0, 10), Lit(5, 10), Lit(8, 10), Lit(9, 10), Lit(15, 10), NegLit(3, 10)}
Ratings      == {Undefined, Lit(45, 10), Lit(46, 10)}
Coordinates  ==
    { [lat |-> Lit(1375, 100), lng |-> Lit(10050, 100)],
      [lat |-> Lit(0, 1),      lng |-> Lit(10050, 100)],
      [lat |-> Undefined,    lng |-> Undefined] }

PlaceItems ==
    { [lat |-> c.lat, lng |-> c.lng, popularity |-> p, rating |-> r] :
        c \in Coordinates, p \in Popularities, r \in Ratings }

\* no analysis yet: the effect returns at line 675
HeatNone == places = <<>> /\ points = None

HeatIdle ==
    /\ places \in UNION {[1..n -> PlaceItems] : n \in 1..MaxItems}
    /\ points = None

\* the effect, lines 674-709, on the analysis it is given
DrawHeat ==
    /\ points = None
    /\ points' = Some(ExtractAll(places))
    /\ UNCHANGED places
    /\ UNCHANGED <<circle, pts, positions, span, measured>>
    /\ UNCHANGED <<searchVars, analyzeVars, routeVars, appVars>>

\* the cleanup of the effect, lines 711-713, before it runs again
RemoveHeat ==
    /\ points # None
    /\ points' = None
    /\ UNCHANGED places
    /\ UNCHANGED <<circle, pts, positions, span, measured>>
    /\ UNCHANGED <<searchVars, analyzeVars, routeVars, appVars>>

HeatNext == DrawHeat \/ RemoveHeat

\* the square root of n rounded down, by Newton's iteration from x, which is
\* at least the root
RECURSIVE SqrtFrom(_, _)

\* the iteration has stopped when its next value y is not below x
SqrtNext(n, x, y) == IF LessBig(y, x) THEN SqrtFrom(n, y) ELSE x

SqrtFrom(n, x) == SqrtNext(n, x, DivSmall(AddBig(x, DivBig(n, x).q), 2).q)

\* the root with a last bit that records that its square is not n
RootOf(n, root) ==
    AddBig(MulSmall(root, 2), IF MulBig(root, root) = n THEN <<>> ELSE <<1>>)

\* the root of n, of the given number of limbs
SqrtBig(n, limbs) == RootOf(n, SqrtFrom(n, [i \in 1..limbs |-> Base - 1]))

\* Math.sqrt(u) for u >= 0: the root is taken to the whole limbs that hold
\* more than 53 bits, of the magnitude shifted to twice as many limbs (less
\* a bit when the exponent asks for it), and a last bit records a remainder
MathSqrt(u) ==
    IF IsZero(u) THEN u
    ELSE LET limbs == (MantissaBits + 3) \div LimbBits + 1
             s == 2 * limbs * LimbBits - MantissaBits - 1 + (u.abs.e % 2)
         IN  Signed(FALSE, RoundBig(SqrtBig(ShiftLeft(u.abs.m, s), limbs),
                                    ((u.abs.e - s) \div 2) - 1))

\* Math.PI
PI == Signed(FALSE, Double(<<11544, 10376, 2029, 201>>, -51))

(***************************************************************************)
(* Math.sin, Math.cos, Math.asin and Math.atan2 are the engine's library:  *)
(* the values it returns for the arguments that occur in the computations  *)
(* below are tabulated, each number as its sign, the four limbs of its      *)
(* magnitude and its exponent.                                             *)
(***************************************************************************)
Tabulated(t, i) ==
    Signed(t[i] = 1,
           IF t[i + 4] = 0 THEN Double(<<>>, 0)
           ELSE Double(<<t[i + 1], t[i + 2], t[i + 3], t[i + 4]>>, t[i + 5]))

SinValues ==
    { <<0, 0, 0, 0, 0, 0, 0, 0, 0, 0, 0, 0>>,
      <<0, 10101, 21367, 30447, 175, -50, 1, 15310, 19710, 633, 181, -53>>,
      <<0, 10106, 22200, 9591, 163, -56, 0, 32121, 1697, 3924, 163, -56>>,
      <<0, 10229, 21719, 31228, 215, -66, 0, 16946, 21309, 31228, 215, -66>>,
      <<0, 10253, 8774, 22231, 254, -51, 1, 16064, 20583, 8030, 190, -53>>,
      <<0, 10253, 8774, 22231, 254, -52, 0, 32662, 24062, 28430, 233, -53>>,
      <<0, 10253, 8774, 22231, 254, -53, 0, 12251, 20828, 22926, 214, -53>>,
      <<0, 1042, 31250, 26212, 245, -55, 0, 4211, 11660, 14624, 243, -55>>,
      <<0, 10746, 22168, 3962, 149, -50, 1, 26141, 23077, 21271, 255, -53>>,
      <<0, 10809, 12845, 27949, 179, -56, 0, 6475, 5197, 20377, 179, -56>>,
      <<0, 10898, 9575, 28514, 227, -51, 1, 6858, 16908, 8164, 208, -54>>,
      <<0, 10898, 9575, 28514, 227, -52, 0, 128, 25844, 13296, 250, -53>>,
      <<0, 10898, 9575, 28514, 227, -53, 0, 8999, 27179, 31108, 198, -53>>,
      <<0, 11544, 10376, 2029, 201, -50, 1, 23559, 26152, 6296, 141, -104>>,
      <<0, 11544, 10376, 2029, 201, -51, 0, 23559, 26152, 6296, 141, -105>>,
      <<0, 11544, 10376, 2029, 201, -52, 0, 0, 0, 0, 128, -52>>,
      <<0, 11544, 10376, 2029, 201, -53, 0, 15308, 19710, 633, 181, -53>>,
      <<0, 1168, 21259, 25688, 245, -55, 0, 9808, 2702, 14115, 243, -55>>,
      <<0, 11724, 220, 22445, 165, -56, 0, 24448, 22147, 16524, 165, -56>>,
      <<0, 11807, 29079, 29412, 245, -55, 0, 2750, 16615, 17732, 243, -55>>,
      <<0, 11913, 22002, 23480, 179, -56, 0, 22019, 21156, 15925, 179, -56>>,
      <<0, 1217, 20562, 19316, 245, -55, 0, 13851, 19263, 7925, 243, -55>>,
      <<0, 12189, 11177, 8312, 174, -50, 1, 16069, 20583, 8030, 190, -53>>,
      <<0, 12189, 11177, 8312, 174, -51, 0, 6869, 16908, 8164, 208, -54>>,
      <<0, 12189, 11177, 8312, 174, -52, 0, 127, 25844, 13296, 250, -53>>,
      <<0, 12189, 11177, 8312, 174, -53, 0, 31421, 2192, 3474, 161, -53>>,
      <<0, 12390, 28644, 2703, 166, -64, 0, 28757, 25661, 2703, 166, -64>>,
      <<0, 12520, 19894, 29878, 234, -60, 0, 21260, 22042, 29812, 234, -60>>,
      <<0, 12766, 916, 13755, 159, -56, 0, 1443, 3458, 8481, 159, -56>>,
      <<0, 12835, 11978, 14595, 147, -50, 1, 26567, 10736, 19582, 254, -53>>,
      <<0, 12835, 11978, 14595, 147, -51, 0, 16066, 20583, 8030, 190, -53>>,
      <<0, 12835, 11978, 14595, 147, -52, 0, 32661, 24062, 28430, 233, -53>>,
      <<0, 12835, 11978, 14595, 147, -53, 0, 30493, 12000, 14011, 139, -53>>,
      <<0, 1285, 5845, 14030, 135, -67, 0, 25300, 5819, 14030, 135, -67>>,
      <<0, 12870, 15088, 28586, 245, -55, 0, 558, 25924, 16929, 243, -55>>,
      <<0, 1295, 15645, 18724, 171, -56, 0, 19298, 19831, 12150, 171, -56>>,
      <<0, 13200, 1299, 17517, 168, -54, 0, 8552, 31059, 16629, 165, -54>>,
      <<0, 13564, 16208, 23230, 245, -55, 0, 28318, 12329, 11727, 243, -55>>,
      <<0, 13608, 425, 27194, 245, -55, 0, 12925, 9289, 15577, 243, -55>>,
      <<0, 13632, 186, 12662, 199, -50, 1, 18779, 4575, 12061, 214, -57>>,
      <<0, 13659, 2725, 28616, 236, -53, 0, 9965, 21776, 16089, 204, -53>>,
      <<0, 13734, 112, 29137, 245, -55, 0, 21340, 17661, 17464, 243, -55>>,
      <<0, 13864, 1647, 22520, 222, -53, 0, 24089, 30888, 21203, 195, -53>>,
      <<0, 1407, 21183, 361, 183, -64, 0, 13784, 17192, 361, 183, -64>>,
      <<0, 14278, 987, 18945, 172, -50, 1, 8999, 27179, 31108, 198, -53>>,
      <<0, 14385, 594, 27640, 245, -55, 0, 11611, 16295, 16010, 243, -55>>,
      <<0, 14430, 21162, 10728, 251, -51, 1, 15308, 19710, 633, 181, -53>>,
      <<0, 14718, 2866, 31324, 159, -56, 0, 15405, 25707, 25996, 159, -56>>,
      <<0, 14874, 12484, 22962, 245, -55, 0, 1138, 30929, 11466, 243, -55>>,
      <<0, 14923, 1788, 25228, 145, -50, 1, 25691, 10335, 27794, 252, -53>>,
      <<0, 15076, 21963, 17011, 224, -51, 1, 21311, 16285, 15872, 183, -54>>,
      <<0, 1511, 29683, 26958, 245, -55, 0, 19260, 30101, 15348, 243, -55>>,
      <<0, 15199, 16853, 5055, 164, -56, 0, 6295, 23692, 32065, 163, -56>>,
      <<0, 15589, 26755, 19194, 164, -65, 0, 27139, 26029, 19194, 164, -65>>,
      <<0, 15721, 22764, 23294, 197, -50, 1, 22376, 13944, 2434, 214, -56>>,
      <<0, 15721, 22764, 23294, 197, -51, 0, 18698, 4575, 12061, 214, -57>>,
      <<0, 15883, 31231, 18184, 178, -56, 0, 24235, 14523, 10775, 178, -56>>,
      <<0, 15929, 22549, 20064, 245, -55, 0, 10388, 7707, 8652, 243, -55>>,
      <<0, 16009, 26811, 22651, 222, -53, 0, 31002, 30218, 21288, 195, -53>>,
      <<0, 16117, 11360, 22183, 245, -55, 0, 16287, 7386, 10710, 243, -55>>,
      <<0, 16118, 8480, 29477, 245, -55, 0, 30182, 1026, 17795, 243, -55>>,
      <<0, 16366, 23565, 29577, 170, -50, 1, 29865, 14127, 3550, 207, -53>>,
      <<0, 16366, 23565, 29577, 170, -51, 0, 24066, 22153, 14520, 232, -54>>,
      <<0, 16566, 20991, 14864, 178, -55, 0, 24537, 22834, 18078, 177, -55>>,
      <<0, 16775, 23256, 28049, 245, -55, 0, 14799, 14344, 16408, 243, -55>>,
      <<0, 16961, 22728, 27849, 245, -55, 0, 16117, 5204, 16214, 243, -55>>,
      <<0, 17011, 24366, 3092, 144, -50, 1, 127, 25844, 13296, 250, -53>>,
      <<0, 17011, 24366, 3092, 144, -51, 0, 9001, 27179, 31108, 198, -53>>,
      <<0, 17206, 21824, 10893, 166, -56, 0, 9316, 21977, 4903, 166, -56>>,
      <<0, 17207, 21824, 10893, 166, -56, 0, 9317, 21977, 4903, 166, -56>>,
      <<0, 17394, 5959, 26212, 163, -56, 0, 13282, 19306, 20491, 163, -56>>,
      <<0, 1748, 29359, 20684, 182, -50, 1, 30492, 12000, 14011, 139, -53>>,
      <<0, 17565, 27830, 25949, 167, -56, 0, 2774, 27038, 19800, 167, -56>>,
      <<0, 17809, 12574, 1159, 196, -50, 1, 21374, 20304, 6189, 160, -55>>,
      <<0, 17849, 5273, 21692, 245, -55, 0, 24454, 3529, 10233, 243, -55>>,
      <<0, 17943, 23075, 19123, 245, -55, 0, 16981, 6107, 7738, 243, -55>>,
      <<0, 18091, 5670, 26592, 176, -56, 0, 29280, 17685, 19397, 176, -56>>,
      <<0, 18257, 23035, 26467, 245, -55, 0, 27427, 26244, 14871, 243, -55>>,
      <<0, 18438, 19979, 20411, 245, -55, 0, 7390, 7365, 8989, 243, -55>>,
      <<0, 18454, 13375, 7442, 169, -50, 1, 12254, 20828, 22926, 214, -53>>,
      <<0, 18607, 782, 31994, 247, -51, 1, 3032, 11716, 9746, 171, -53>>,
      <<0, 18607, 782, 31994, 247, -52, 0, 14341, 7679, 32656, 238, -53>>,
      <<0, 18715, 7403, 18195, 174, -56, 0, 931, 14911, 11272, 174, -56>>,
      <<0, 18825, 4192, 18981, 168, -54, 0, 15896, 13449, 18015, 165, -54>>,
      <<0, 18934, 22281, 28858, 128, -53, 0, 12349, 28453, 333, 247, -54>>,
      <<0, 19075, 17377, 25420, 245, -55, 0, 15396, 21301, 13854, 243, -55>>,
      <<0, 19100, 14176, 13725, 142, -50, 1, 16149, 3729, 9077, 247, -53>>,
      <<0, 1918, 20296, 12615, 165, -56, 0, 31260, 12428, 6727, 165, -56>>,
      <<0, 19204, 10404, 19238, 245, -55, 0, 8196, 17016, 7849, 243, -55>>,
      <<0, 19253, 1583, 5509, 221, -51, 1, 26965, 28255, 7100, 158, -54>>,
      <<0, 19253, 1583, 5509, 221, -52, 0, 25691, 10335, 27794, 252, -53>>,
      <<0, 19307, 16980, 28239, 245, -55, 0, 3556, 26266, 16592, 243, -55>>,
      <<0, 19795, 1030, 25953, 245, -55, 0, 3154, 29022, 14371, 243, -55>>,
      <<0, 19837, 19966, 19317, 224, -53, 0, 16862, 227, 28459, 196, -53>>,
      <<0, 19897, 23547, 27540, 169, -56, 0, 14896, 25175, 21163, 169, -56>>,
      <<0, 19897, 2384, 11792, 194, -50, 1, 22793, 22660, 29542, 212, -55>>,
      <<0, 19897, 2384, 11792, 194, -51, 0, 22399, 13944, 2434, 214, -56>>,
      <<0, 19897, 2384, 11792, 194, -52, 0, 26141, 23077, 21271, 255, -53>>,
      <<0, 20543, 3185, 18075, 167, -50, 1, 19626, 20656, 23019, 221, -53>>,
      <<0, 20543, 3185, 18075, 167, -51, 0, 32767, 32767, 32767, 255, -54>>,
      <<0, 20543, 3185, 18075, 167, -52, 0, 16149, 3729, 9077, 247, -53>>,
      <<0, 20674, 2684, 19066, 245, -55, 0, 20273, 6989, 7682, 243, -55>>,
      <<0, 20701, 4866, 24601, 245, -55, 0, 1023, 24708, 13058, 243, -55>>,
      <<0, 20941, 24485, 23801, 173, -56, 0, 32424, 3499, 16977, 173, -56>>,
      <<0, 21188, 3986, 24358, 140, -50, 1, 21759, 9864, 15416, 243, -53>>,
      <<0, 21188, 3986, 24358, 140, -51, 0, 29864, 14127, 3550, 207, -53>>,
      <<0, 21188, 3986, 24358, 140, -52, 0, 11372, 14970, 3200, 228, -53>>,
      <<0, 21206, 8455, 27421, 245, -55, 0, 28217, 372, 15798, 243, -55>>,
      <<0, 21497, 14367, 26084, 179, -56, 0, 10912, 12765, 18519, 179, -56>>,
      <<0, 2163, 28977, 19632, 245, -55, 0, 11620, 25961, 8232, 243, -55>>,
      <<0, 21770, 30944, 11317, 179, -56, 0, 25314, 20356, 3809, 179, -56>>,
      <<0, 21913, 32609, 3484, 176, -56, 0, 19253, 2643, 29144, 175, -56>>,
      <<0, 21914, 32609, 3484, 176, -56, 0, 19254, 2643, 29144, 175, -56>>,
      <<0, 21986, 24962, 22424, 192, -50, 1, 1679, 806, 16887, 132, -54>>,
      <<0, 22308, 21832, 19408, 245, -55, 0, 27715, 32513, 8014, 243, -55>>,
      <<0, 22513, 9703, 1395, 178, -56, 0, 25600, 12260, 26817, 177, -56>>,
      <<0, 22631, 25763, 28707, 165, -50, 1, 11374, 14970, 3200, 228, -53>>,
      <<0, 22758, 7708, 20145, 179, -56, 0, 27274, 1183, 12603, 179, -56>>,
      <<0, 22784, 13170, 20491, 244, -51, 1, 31423, 2192, 3474, 161, -53>>,
      <<0, 23050, 23354, 13399, 167, -56, 0, 2333, 22617, 7292, 167, -56>>,
      <<0, 23260, 9850, 11518, 175, -56, 0, 3054, 12625, 4500, 175, -56>>,
      <<0, 23276, 26564, 2222, 139, -50, 1, 14340, 7679, 32656, 238, -53>>,
      <<0, 23387, 19619, 28418, 245, -55, 0, 28211, 24410, 16766, 243, -55>>,
      <<0, 23428, 13971, 26774, 217, -51, 1, 1673, 806, 16887, 132, -54>>,
      <<0, 23438, 2900, 22438, 245, -55, 0, 6735, 21971, 10957, 243, -55>>,
      <<0, 23616, 12137, 31676, 163, -56, 0, 24090, 9581, 25938, 163, -56>>,
      <<0, 23650, 9584, 29018, 245, -55, 0, 32094, 7669, 17349, 243, -55>>,
      <<0, 23714, 16618, 4687, 177, -56, 0, 24255, 11078, 30220, 176, -56>>,
      <<0, 23715, 16618, 4687, 177, -56, 0, 24256, 11078, 30220, 176, -56>>,
      <<0, 2393, 30160, 26967, 155, -50, 1, 25692, 10335, 27794, 252, -53>>,
      <<0, 23982, 16649, 24325, 245, -55, 0, 21857, 431, 12791, 243, -55>>,
      <<0, 24074, 14772, 289, 191, -50, 1, 26963, 28255, 7100, 158, -54>>,
      <<0, 24074, 14772, 289, 191, -51, 0, 21369, 20304, 6189, 160, -55>>,
      <<0, 24139, 15623, 21934, 245, -55, 0, 11341, 15847, 10468, 243, -55>>,
      <<0, 2423, 1427, 18771, 171, -56, 0, 6508, 262, 12197, 171, -56>>,
      <<0, 24720, 15573, 6572, 164, -50, 1, 32660, 24062, 28430, 233, -53>>,
      <<0, 24720, 15573, 6572, 164, -51, 0, 30492, 12000, 14011, 139, -53>>,
      <<0, 2506, 17683, 20232, 245, -55, 0, 15503, 9220, 8815, 243, -55>>,
      <<0, 25115, 13538, 20801, 245, -55, 0, 27597, 28426, 9367, 243, -55>>,
      <<0, 25280, 16426, 29563, 245, -55, 0, 1019, 26186, 17878, 243, -55>>,
      <<0, 25308, 22674, 8815, 170, -56, 0, 19583, 11735, 2390, 170, -56>>,
      <<0, 25365, 16374, 12855, 137, -50, 1, 32662, 24062, 28430, 233, -53>>,
      <<0, 25365, 16374, 12855, 137, -51, 0, 12251, 20828, 22926, 214, -53>>,
      <<0, 25441, 23428, 19087, 245, -55, 0, 9927, 7445, 7703, 243, -55>>,
      <<0, 2546, 17567, 18751, 234, -51, 1, 1, 0, 0, 128, -53>>,
      <<0, 2546, 17567, 18751, 234, -52, 0, 16149, 3729, 9077, 247, -53>>,
      <<0, 25461, 19993, 23501, 245, -55, 0, 1301, 23725, 11990, 243, -55>>,
      <<0, 25574, 13347, 29630, 225, -57, 0, 23031, 6807, 25878, 225, -57>>,
      <<0, 25596, 21076, 28742, 245, -55, 0, 20160, 16161, 17081, 243, -55>>,
      <<0, 2574, 7054, 13781, 178, -55, 0, 16996, 22247, 17011, 177, -55>>,
      <<0, 25936, 12107, 11455, 163, -56, 0, 27684, 26897, 5781, 163, -56>>,
      <<0, 2608, 25547, 11868, 164, -56, 0, 24818, 2823, 6089, 164, -56>>,
      <<0, 26135, 2144, 25164, 131, -68, 0, 32088, 2138, 25164, 131, -68>>,
      <<0, 26162, 4582, 10922, 189, -50, 1, 21317, 16285, 15872, 183, -54>>,
      <<0, 263, 21183, 361, 183, -64, 0, 12640, 17192, 361, 183, -64>>,
      <<0, 263, 21183, 361, 183, -66, 0, 19468, 20933, 361, 183, -66>>,
      <<0, 26319, 10132, 5850, 179, -56, 0, 14505, 30081, 31130, 178, -56>>,
      <<0, 266, 17244, 29242, 245, -55, 0, 15999, 1117, 17567, 243, -55>>,
      <<0, 26635, 2922, 14474, 172, -56, 0, 32544, 22788, 7799, 172, -56>>,
      <<0, 26646, 6704, 6934, 133, -60, 0, 11879, 5940, 6922, 133, -60>>,
      <<0, 26807, 5383, 17205, 162, -50, 1, 14344, 7679, 32656, 238, -53>>,
      <<0, 26919, 14714, 19764, 245, -55, 0, 25284, 19364, 8360, 243, -55>>,
      <<0, 26960, 25558, 8988, 241, -51, 1, 23133, 2282, 15500, 150, -53>>,
      <<0, 26960, 25558, 8988, 241, -52, 0, 21760, 9864, 15416, 243, -53>>,
      <<0, 26960, 25558, 8988, 241, -53, 0, 29864, 14127, 3550, 207, -53>>,
      <<0, 26960, 25558, 8988, 241, -54, 0, 24064, 22153, 14520, 232, -54>>,
      <<0, 27062, 133, 22698, 245, -55, 0, 7792, 4609, 11210, 243, -55>>,
      <<0, 27436, 200, 21788, 222, -53, 0, 4575, 26384, 20731, 195, -53>>,
      <<0, 27453, 6184, 23488, 135, -50, 1, 11372, 14970, 3200, 228, -53>>,
      <<0, 27580, 16704, 23217, 238, -53, 0, 29682, 6514, 19328, 205, -53>>,
      <<0, 27605, 26359, 15271, 214, -51, 1, 22764, 22660, 29542, 212, -55>>,
      <<0, 27605, 26359, 15271, 214, -52, 0, 26567, 10736, 19582, 254, -53>>,
      <<0, 27605, 26359, 15271, 214, -53, 0, 16065, 20583, 8030, 190, -53>>,
      <<0, 27605, 26359, 15271, 214, -54, 0, 6864, 16908, 8164, 208, -54>>,
      <<0, 27605, 26359, 15271, 214, -55, 0, 22773, 22660, 29542, 212, -55>>,
      <<0, 27605, 26359, 15271, 214, -56, 0, 22379, 13944, 2434, 214, -56>>,
      <<0, 27605, 26359, 15271, 214, -57, 0, 18701, 4575, 12061, 214, -57>>,
      <<0, 27785, 15626, 17121, 224, -53, 0, 14866, 31370, 27054, 196, -53>>,
      <<0, 27884, 8736, 27417, 164, -56, 0, 4569, 12539, 21587, 164, -56>>,
      <<0, 27930, 21096, 10092, 178, -56, 0, 1259, 27124, 2713, 178, -56>>,
      <<0, 27932, 7838, 29892, 226, -57, 0, 23500, 19435, 26089, 226, -57>>,
      <<0, 28107, 28321, 19058, 245, -55, 0, 27050, 6627, 7675, 243, -55>>,
      <<0, 28251, 27160, 21554, 187, -50, 1, 6864, 16908, 8164, 208, -54>>,
      <<0, 28251, 27160, 21554, 187, -51, 0, 22773, 22660, 29542, 212, -55>>,
      <<0, 28251, 27160, 21554, 187, -52, 0, 26566, 10736, 19582, 254, -53>>,
      <<0, 28251, 27160, 21554, 187, -53, 0, 3032, 11716, 9746, 171, -53>>,
      <<0, 28251, 27160, 21554, 187, -54, 0, 21308, 16285, 15872, 183, -54>>,
      <<0, 28356, 13596, 29070, 179, -56, 0, 3010, 28205, 21493, 179, -56>>,
      <<0, 28359, 32258, 23774, 245, -55, 0, 1074, 8694, 12256, 243, -55>>,
      <<0, 28680, 792, 25650, 178, -56, 0, 13778, 4071, 18212, 178, -56>>,
      <<0, 28686, 27543, 25316, 196, -56, 0, 23223, 30737, 15400, 196, -56>>,
      <<0, 28896, 27961, 27837, 160, -50, 1, 21760, 9864, 15416, 243, -53>>,
      <<0, 28896, 27961, 27837, 160, -51, 0, 23135, 2282, 15500, 150, -53>>,
      <<0, 28896, 27961, 27837, 160, -52, 0, 21759, 9864, 15416, 243, -53>>,
      <<0, 28896, 27961, 27837, 160, -53, 0, 23134, 2282, 15500, 150, -53>>,
      <<0, 28896, 27961, 27837, 160, -54, 0, 26959, 28255, 7100, 158, -54>>,
      <<0, 28896, 27961, 27837, 160, -55, 0, 21365, 20304, 6189, 160, -55>>,
      <<0, 29260, 22595, 19265, 168, -56, 0, 4897, 24752, 13028, 168, -56>>,
      <<0, 2929, 12872, 23373, 168, -54, 0, 18327, 18032, 22171, 165, -54>>,
      <<0, 29421, 13467, 25149, 245, -55, 0, 9645, 9906, 13591, 243, -55>>,
      <<0, 29481, 17247, 32000, 226, -57, 0, 3869, 21136, 28194, 226, -57>>,
      <<0, 29541, 28762, 1352, 134, -50, 1, 19624, 20656, 23019, 221, -53>>,
      <<0, 29541, 28762, 1352, 134, -51, 0, 19627, 20656, 23019, 221, -53>>,
      <<0, 29541, 28762, 1352, 134, -52, 0, 19626, 20656, 23019, 221, -53>>,
      <<0, 29541, 28762, 1352, 134, -53, 0, 32767, 32767, 32767, 255, -54>>,
      <<0, 29541, 28762, 1352, 134, -54, 0, 1680, 806, 16887, 132, -54>>,
      <<0, 29816, 27133, 21229, 245, -55, 0, 15497, 490, 9784, 243, -55>>,
      <<0, 29869, 19041, 26716, 245, -55, 0, 32373, 17783, 15113, 243, -55>>,
      <<0, 29929, 8022, 17253, 224, -53, 0, 25757, 6972, 27139, 196, -53>>,
      <<0, 30168, 23717, 234, 172, -56, 0, 27365, 21278, 26378, 171, -56>>,
      <<0, 30339, 16970, 32187, 185, -50, 1, 24068, 22153, 14520, 232, -54>>,
      <<0, 3039, 30961, 482, 129, -50, 1, 9002, 27179, 31108, 198, -53>>,
      <<0, 304, 7582, 16335, 157, -50, 1, 129, 25844, 13296, 250, -53>>,
      <<0, 304, 7582, 16335, 157, -51, 0, 31424, 2192, 3474, 161, -53>>,
      <<0, 30569, 24543, 31392, 174, -56, 0, 10237, 31452, 24421, 174, -56>>,
      <<0, 30855, 14622, 13653, 169, -56, 0, 6172, 3395, 7324, 169, -56>>,
      <<0, 30985, 17771, 5702, 159, -50, 1, 16148, 3729, 9077, 247, -53>>,
      <<0, 31066, 31160, 19173, 245, -55, 0, 13532, 32604, 7786, 243, -55>>,
      <<0, 31087, 28942, 22975, 170, -56, 0, 6052, 16874, 16501, 170, -56>>,
      <<0, 31137, 5178, 30254, 237, -51, 1, 30493, 12000, 14011, 139, -53>>,
      <<0, 31141, 19183, 1223, 167, -56, 0, 19342, 4251, 27925, 166, -56>>,
      <<0, 31630, 18572, 11985, 132, -50, 1, 12252, 20828, 22926, 214, -53>>,
      <<0, 31638, 16884, 19908, 245, -55, 0, 23554, 17469, 8500, 243, -55>>,
      <<0, 31714, 5950, 19514, 245, -55, 0, 22374, 15969, 8117, 243, -55>>,
      <<0, 31748, 18732, 29334, 245, -55, 0, 29863, 14367, 17656, 243, -55>>,
      <<0, 31782, 5979, 3769, 211, -51, 1, 21360, 20304, 6189, 160, -55>>,
      <<0, 31799, 29887, 21445, 163, -56, 0, 26859, 17772, 15740, 163, -56>>,
      <<0, 31896, 15930, 4446, 171, -56, 0, 11231, 18384, 30690, 170, -56>>,
      <<0, 31897, 15930, 4446, 171, -56, 0, 11232, 18384, 30690, 170, -56>>,
      <<0, 3190, 18368, 25034, 207, -51, 1, 22350, 13944, 2434, 214, -56>>,
      <<0, 3190, 18368, 25034, 207, -52, 0, 26141, 23077, 21271, 255, -53>>,
      <<0, 31987, 8587, 9912, 173, -56, 0, 23700, 14487, 3137, 173, -56>>,
      <<0, 32010, 3752, 19461, 230, -67, 0, 8077, 3628, 19461, 230, -67>>,
      <<0, 32314, 19963, 24325, 245, -55, 0, 30856, 3650, 12791, 243, -55>>,
      <<0, 3233, 9226, 16087, 179, -56, 0, 11737, 21890, 8560, 179, -56>>,
      <<0, 32368, 28450, 24049, 245, -55, 0, 9923, 8923, 12523, 243, -55>>,
      <<0, 32427, 6780, 10052, 184, -50, 1, 4, 0, 0, 128, -53>>,
      <<0, 32427, 6780, 10052, 184, -51, 0, 1685, 806, 16887, 132, -54>>,
      <<0, 32534, 12364, 32467, 178, -56, 0, 32301, 15970, 25003, 178, -56>>,
      <<0, 32669, 26987, 22222, 166, -56, 0, 23060, 13318, 16195, 166, -56>>,
      <<0, 3695, 21183, 361, 183, -66, 0, 22900, 20933, 361, 183, -66>>,
      <<0, 3746, 12771, 14057, 163, -56, 0, 16577, 18506, 8375, 163, -56>>,
      <<0, 3753, 11606, 29592, 245, -55, 0, 16664, 27003, 17906, 243, -55>>,
      <<0, 3812, 24652, 18058, 168, -54, 0, 5113, 18803, 17142, 165, -54>>,
      <<0, 3836, 19169, 31317, 180, -50, 1, 23136, 2282, 15500, 150, -53>>,
      <<0, 3836, 19169, 31317, 180, -51, 0, 26961, 28255, 7100, 158, -54>>,
      <<0, 3836, 19169, 31317, 180, -52, 0, 25692, 10335, 27794, 252, -53>>,
      <<0, 4089, 14134, 29444, 179, -56, 0, 20461, 14260, 21866, 179, -56>>,
      <<0, 4341, 30614, 3151, 178, -55, 0, 14455, 1525, 6543, 177, -55>>,
      <<0, 4447, 14439, 4412, 160, -56, 0, 9519, 8667, 31835, 159, -56>>,
      <<0, 4481, 19970, 4832, 154, -50, 1, 26567, 10736, 19582, 254, -53>>,
      <<0, 4481, 19970, 4832, 154, -51, 0, 3033, 11716, 9746, 171, -53>>,
      <<0, 4481, 19970, 4832, 154, -52, 0, 14341, 7679, 32656, 238, -53>>,
      <<0, 5022, 16639, 19329, 164, -56, 0, 14361, 25139, 13525, 164, -56>>,
      <<0, 5058, 29695, 3341, 165, -56, 0, 12996, 27402, 30251, 164, -56>>,
      <<0, 5318, 15205, 11936, 178, -55, 0, 12664, 27875, 15194, 177, -55>>,
      <<0, 5501, 20090, 17390, 163, -56, 0, 11322, 5711, 11698, 163, -56>>,
      <<0, 5892, 17760, 28635, 172, -56, 0, 19013, 27927, 21910, 172, -56>>,
      <<0, 5916, 5987, 24716, 222, -53, 0, 6528, 2035, 22620, 195, -53>>,
      <<0, 5924, 8979, 9182, 179, -50, 1, 31425, 2192, 3474, 161, -53>>,
      <<0, 6079, 4457, 29585, 245, -55, 0, 23441, 26641, 17899, 243, -55>>,
      <<0, 6120, 4909, 18620, 208, -54, 0, 3265, 6849, 27772, 202, -54>>,
      <<0, 6158, 16842, 15050, 177, -56, 0, 14148, 17515, 7776, 177, -56>>,
      <<0, 6570, 9780, 15465, 152, -50, 1, 26141, 23077, 21271, 255, -53>>,
      <<0, 6628, 20087, 6071, 168, -56, 0, 28359, 8210, 32647, 167, -56>>,
      <<0, 6721, 29955, 7248, 231, -51, 1, 24055, 22153, 14520, 232, -54>>,
      <<0, 6752, 13357, 20601, 245, -55, 0, 28915, 19286, 9173, 243, -55>>,
      <<0, 6776, 2562, 21011, 245, -55, 0, 32103, 17335, 9571, 243, -55>>,
      <<0, 6998, 16690, 29527, 245, -55, 0, 26733, 27523, 17843, 243, -55>>,
      <<0, 7042, 15753, 746, 129, -64, 0, 29176, 14354, 746, 129, -64>>,
      <<0, 7112, 17203, 24072, 175, -56, 0, 3495, 17046, 17008, 175, -56>>,
      <<0, 7157, 10073, 15258, 176, -56, 0, 15536, 26344, 8105, 176, -56>>,
      <<0, 7367, 30756, 13531, 204, -51, 1, 18663, 4575, 12061, 214, -57>>,
      <<0, 743, 1113, 24876, 245, -55, 0, 9872, 24937, 13325, 243, -55>>,
      <<0, 757, 21488, 8097, 163, -56, 0, 18135, 25402, 2434, 163, -56>>,
      <<0, 774, 23556, 28886, 245, -55, 0, 18430, 14266, 17221, 243, -55>>,
      <<0, 7880, 4786, 35, 166, -56, 0, 14340, 28584, 26848, 165, -56>>,
      <<0, 8013, 31557, 19814, 177, -50, 1, 3031, 11716, 9746, 171, -53>>,
      <<0, 8013, 31557, 19814, 177, -51, 0, 21307, 16285, 15872, 183, -54>>,
      <<0, 8390, 7695, 8463, 137, -64, 0, 23339, 6011, 8463, 137, -64>>,
      <<0, 8470, 13666, 8471, 163, -56, 0, 2818, 11458, 2807, 163, -56>>,
      <<0, 8589, 14180, 16389, 224, -53, 0, 23583, 27609, 26586, 196, -53>>,
      <<0, 8658, 32358, 26097, 150, -50, 1, 0, 0, 0, 128, -52>>,
      <<0, 8658, 32358, 26097, 150, -51, 0, 15309, 19710, 633, 181, -53>>,
      <<0, 8676, 7695, 8463, 137, -64, 0, 23625, 6011, 8463, 137, -64>>,
      <<0, 8764, 30453, 32727, 168, -56, 0, 21535, 9753, 26445, 168, -56>>,
      <<0, 8944, 7625, 10945, 227, -57, 0, 13118, 11283, 7121, 227, -57>>,
      <<0, 8979, 2072, 21457, 245, -55, 0, 30789, 24341, 10004, 243, -55>>,
      <<0, 9102, 25192, 24884, 177, -56, 0, 7336, 27234, 17573, 177, -56>>,
      <<0, 9151, 30106, 4729, 174, -56, 0, 17061, 29909, 30623, 173, -56>>,
      <<0, 9230, 19332, 2245, 160, -56, 0, 9738, 1034, 29675, 159, -56>>,
      <<0, 950, 8383, 22618, 130, -50, 1, 29863, 14127, 3550, 207, -53>>,
      <<0, 950, 8383, 22618, 130, -51, 0, 11373, 14970, 3200, 228, -53>>,
      <<1, 10229, 21719, 31228, 215, -66, 1, 16946, 21309, 31228, 215, -66>>,
      <<1, 12390, 28644, 2703, 166, -64, 1, 28757, 25661, 2703, 166, -64>>,
      <<1, 12520, 19894, 29878, 234, -60, 1, 21260, 22042, 29812, 234, -60>>,
      <<1, 12766, 916, 13755, 159, -56, 1, 1443, 3458, 8481, 159, -56>>,
      <<1, 1285, 5845, 14030, 135, -67, 1, 25300, 5819, 14030, 135, -67>>,
      <<1, 13200, 1299, 17517, 168, -54, 1, 8552, 31059, 16629, 165, -54>>,
      <<1, 13659, 2725, 28616, 236, -53, 1, 9965, 21776, 16089, 204, -53>>,
      <<1, 13864, 1647, 22520, 222, -53, 1, 24089, 30888, 21203, 195, -53>>,
      <<1, 1407, 21183, 361, 183, -64, 1, 13784, 17192, 361, 183, -64>>,
      <<1, 14718, 2866, 31324, 159, -56, 1, 15405, 25707, 25996, 159, -56>>,
      <<1, 16009, 26811, 22651, 222, -53, 1, 31002, 30218, 21288, 195, -53>>,
      <<1, 16566, 20991, 14864, 178, -55, 1, 24537, 22834, 18078, 177, -55>>,
      <<1, 18825, 4192, 18981, 168, -54, 1, 15896, 13449, 18015, 165, -54>>,
      <<1, 18934, 22281, 28858, 128, -53, 1, 12349, 28453, 333, 247, -54>>,
      <<1, 19837, 19966, 19317, 224, -53, 1, 16862, 227, 28459, 196, -53>>,
      <<1, 25574, 13347, 29630, 225, -57, 1, 23031, 6807, 25878, 225, -57>>,
      <<1, 2574, 7054, 13781, 178, -55, 1, 16996, 22247, 17011, 177, -55>>,
      <<1, 26135, 2144, 25164, 131, -68, 1, 32088, 2138, 25164, 131, -68>>,
      <<1, 263, 21183, 361, 183, -64, 1, 12640, 17192, 361, 183, -64>>,
      <<1, 263, 21183, 361, 183, -66, 1, 19468, 20933, 361, 183, -66>>,
      <<1, 27436, 200, 21788, 222, -53, 1, 4575, 26384, 20731, 195, -53>>,
      <<1, 27580, 16704, 23217, 238, -53, 1, 29682, 6514, 19328, 205, -53>>,
      <<1, 27785, 15626, 17121, 224, -53, 1, 14866, 31370, 27054, 196, -53>>,
      <<1, 27932, 7838, 29892, 226, -57, 1, 23500, 19435, 26089, 226, -57>>,
      <<1, 28686, 27543, 25316, 196, -56, 1, 23223, 30737, 15400, 196, -56>>,
      <<1, 2929, 12872, 23373, 168, -54, 1, 18327, 18032, 22171, 165, -54>>,
      <<1, 29481, 17247, 32000, 226, -57, 1, 3869, 21136, 28194, 226, -57>>,
      <<1, 29929, 8022, 17253, 224, -53, 1, 25757, 6972, 27139, 196, -53>>,
      <<1, 32010, 3752, 19461, 230, -67, 1, 8077, 3628, 19461, 230, -67>>,
      <<1, 3695, 21183, 361, 183, -66, 1, 22900, 20933, 361, 183, -66>>,
      <<1, 3812, 24652, 18058, 168, -54, 1, 5113, 18803, 17142, 165, -54>>,
      <<1, 4341, 30614, 3151, 178, -55, 1, 14455, 1525, 6543, 177, -55>>,
      <<1, 4447, 14439, 4412, 160, -56, 1, 9519, 8667, 31835, 159, -56>>,
      <<1, 5318, 15205, 11936, 178, -55, 1, 12664, 27875, 15194, 177, -55>>,
      <<1, 5916, 5987, 24716, 222, -53, 1, 6528, 2035, 22620, 195, -53>>,
      <<1, 6120, 4909, 18620, 208, -54, 1, 3265, 6849, 27772, 202, -54>>,
      <<1, 7042, 15753, 746, 129, -64, 1, 29176, 14354, 746, 129, -64>>,
      <<1, 8390, 7695, 8463, 137, -64, 1, 23339, 6011, 8463, 137, -64>>,
      <<1, 8589, 14180, 16389, 224, -53, 1, 23583, 27609, 26586, 196, -53>>,
      <<1, 8676, 7695, 8463, 137, -64, 1, 23625, 6011, 8463, 137, -64>>,
      <<1, 8944, 7625, 10945, 227, -57, 1, 13118, 11283, 7121, 227, -57>>,
      <<1, 9230, 19332, 2245, 160, -56, 1, 9738, 1034, 29675, 159, -56>> }

CosValues ==
    { <<0, 0, 0, 0, 0, 0, 0, 0, 0, 0, 128, -52>>,
      <<0, 10101, 21367, 30447, 175, -50, 0, 15307, 19710, 633, 181, -53>>,
      <<0, 10253, 8774, 22231, 254, -51, 1, 3034, 11716, 9746, 171, -53>>,
      <<0, 10253, 8774, 22231, 254, -52, 1, 6862, 16908, 8164, 208, -54>>,
      <<0, 10253, 8774, 22231, 254, -53, 0, 30494, 12000, 14011, 139, -53>>,
      <<0, 10746, 22168, 3962, 149, -50, 1, 18770, 4575, 12061, 214, -57>>,
      <<0, 10898, 9575, 28514, 227, -51, 1, 32663, 24062, 28430, 233, -53>>,
      <<0, 10898, 9575, 28514, 227, -52, 1, 22766, 22660, 29542, 212, -55>>,
      <<0, 10898, 9575, 28514, 227, -53, 0, 31422, 2192, 3474, 161, -53>>,
      <<0, 11544, 10376, 2029, 201, -50, 0, 0, 0, 0, 128, -52>>,
      <<0, 11544, 10376, 2029, 201, -51, 1, 0, 0, 0, 128, -52>>,
      <<0, 11544, 10376, 2029, 201, -52, 0, 23559, 26152, 6296, 141, -106>>,
      <<0, 11544, 10376, 2029, 201, -53, 0, 15309, 19710, 633, 181, -53>>,
      <<0, 12189, 11177, 8312, 174, -50, 0, 3028, 11716, 9746, 171, -53>>,
      <<0, 12189, 11177, 8312, 174, -51, 1, 32660, 24062, 28430, 233, -53>>,
      <<0, 12189, 11177, 8312, 174, -52, 0, 22778, 22660, 29542, 212, -55>>,
      <<0, 12189, 11177, 8312, 174, -53, 0, 9000, 27179, 31108, 198, -53>>,
      <<0, 12835, 11978, 14595, 147, -50, 1, 22372, 13944, 2434, 214, -56>>,
      <<0, 12835, 11978, 14595, 147, -51, 1, 3032, 11716, 9746, 171, -53>>,
      <<0, 12835, 11978, 14595, 147, -52, 0, 6865, 16908, 8164, 208, -54>>,
      <<0, 12835, 11978, 14595, 147, -53, 0, 12252, 20828, 22926, 214, -53>>,
      <<0, 13632, 186, 12662, 199, -50, 0, 26141, 23077, 21271, 255, -53>>,
      <<0, 14278, 987, 18945, 172, -50, 0, 31422, 2192, 3474, 161, -53>>,
      <<0, 14430, 21162, 10728, 251, -51, 1, 15310, 19710, 633, 181, -53>>,
      <<0, 14923, 1788, 25228, 145, -50, 1, 21371, 20304, 6189, 160, -55>>,
      <<0, 15076, 21963, 17011, 224, -51, 1, 14341, 7679, 32656, 238, -53>>,
      <<0, 15589, 26755, 19194, 164, -65, 0, 30807, 29381, 32767, 255, -53>>,
      <<0, 15721, 22764, 23294, 197, -50, 0, 26566, 10736, 19582, 254, -53>>,
      <<0, 15721, 22764, 23294, 197, -51, 1, 26141, 23077, 21271, 255, -53>>,
      <<0, 16366, 23565, 29577, 170, -50, 0, 23132, 2282, 15500, 150, -53>>,
      <<0, 16366, 23565, 29577, 170, -51, 1, 11372, 14970, 3200, 228, -53>>,
      <<0, 17011, 24366, 3092, 144, -50, 1, 22790, 22660, 29542, 212, -55>>,
      <<0, 17011, 24366, 3092, 144, -51, 1, 31420, 2192, 3474, 161, -53>>,
      <<0, 1748, 29359, 20684, 182, -50, 0, 12252, 20828, 22926, 214, -53>>,
      <<0, 17809, 12574, 1159, 196, -50, 0, 25691, 10335, 27794, 252, -53>>,
      <<0, 18454, 13375, 7442, 169, -50, 0, 30489, 12000, 14011, 139, -53>>,
      <<0, 18607, 782, 31994, 247, -51, 1, 16066, 20583, 8030, 190, -53>>,
      <<0, 18607, 782, 31994, 247, -52, 1, 21308, 16285, 15872, 183, -54>>,
      <<0, 18711, 17375, 486, 230, -53, 0, 28564, 18274, 14210, 159, -53>>,
      <<0, 19100, 14176, 13725, 142, -50, 1, 1678, 806, 16887, 132, -54>>,
      <<0, 19253, 1583, 5509, 221, -51, 1, 21759, 9864, 15416, 243, -53>>,
      <<0, 19253, 1583, 5509, 221, -52, 1, 21371, 20304, 6189, 160, -55>>,
      <<0, 19897, 2384, 11792, 194, -50, 0, 127, 25844, 13296, 250, -53>>,
      <<0, 19897, 2384, 11792, 194, -51, 1, 26566, 10736, 19582, 254, -53>>,
      <<0, 19897, 2384, 11792, 194, -52, 0, 18721, 4575, 12061, 214, -57>>,
      <<0, 20543, 3185, 18075, 167, -50, 0, 1, 0, 0, 128, -53>>,
      <<0, 20543, 3185, 18075, 167, -51, 1, 19627, 20656, 23019, 221, -53>>,
      <<0, 20543, 3185, 18075, 167, -52, 0, 1680, 806, 16887, 132, -54>>,
      <<0, 21188, 3986, 24358, 140, -50, 1, 26962, 28255, 7100, 158, -54>>,
      <<0, 21188, 3986, 24358, 140, -51, 1, 23133, 2282, 15500, 150, -53>>,
      <<0, 21188, 3986, 24358, 140, -52, 0, 24065, 22153, 14520, 232, -54>>,
      <<0, 21986, 24962, 22424, 192, -50, 0, 16149, 3729, 9077, 247, -53>>,
      <<0, 22042, 31536, 30181, 245, -55, 0, 12188, 24259, 21395, 248, -53>>,
      <<0, 22631, 25763, 28707, 165, -50, 0, 24062, 22153, 14520, 232, -54>>,
      <<0, 22784, 13170, 20491, 244, -51, 1, 8999, 27179, 31108, 198, -53>>,
      <<0, 23276, 26564, 2222, 139, -50, 1, 21316, 16285, 15872, 183, -54>>,
      <<0, 23428, 13971, 26774, 217, -51, 1, 16150, 3729, 9077, 247, -53>>,
      <<0, 2393, 30160, 26967, 155, -50, 0, 21358, 20304, 6189, 160, -55>>,
      <<0, 24074, 14772, 289, 191, -50, 0, 21759, 9864, 15416, 243, -53>>,
      <<0, 24074, 14772, 289, 191, -51, 1, 25691, 10335, 27794, 252, -53>>,
      <<0, 2423, 1427, 18771, 171, -56, 0, 4776, 31819, 3347, 255, -53>>,
      <<0, 24720, 15573, 6572, 164, -50, 0, 6871, 16908, 8164, 208, -54>>,
      <<0, 24720, 15573, 6572, 164, -51, 1, 12253, 20828, 22926, 214, -53>>,
      <<0, 25365, 16374, 12855, 137, -50, 1, 6863, 16908, 8164, 208, -54>>,
      <<0, 25365, 16374, 12855, 137, -51, 1, 30493, 12000, 14011, 139, -53>>,
      <<0, 2546, 17567, 18751, 234, -51, 1, 19626, 20656, 23019, 221, -53>>,
      <<0, 2546, 17567, 18751, 234, -52, 1, 1682, 806, 16887, 132, -54>>,
      <<0, 26162, 4582, 10922, 189, -50, 0, 14339, 7679, 32656, 238, -53>>,
      <<0, 26646, 6704, 6934, 133, -60, 0, 10626, 22360, 32698, 255, -53>>,
      <<0, 26807, 5383, 17205, 162, -50, 0, 21295, 16285, 15872, 183, -54>>,
      <<0, 26826, 3661, 28015, 245, -55, 0, 11126, 18764, 21524, 248, -53>>,
      <<0, 26960, 25558, 8988, 241, -51, 1, 29865, 14127, 3550, 207, -53>>,
      <<0, 26960, 25558, 8988, 241, -52, 1, 26958, 28255, 7100, 158, -54>>,
      <<0, 26960, 25558, 8988, 241, -53, 0, 23134, 2282, 15500, 150, -53>>,
      <<0, 26960, 25558, 8988, 241, -54, 0, 11373, 14970, 3200, 228, -53>>,
      <<0, 27453, 6184, 23488, 135, -50, 1, 24067, 22153, 14520, 232, -54>>,
      <<0, 27605, 26359, 15271, 214, -51, 1, 128, 25844, 13296, 250, -53>>,
      <<0, 27605, 26359, 15271, 214, -52, 1, 22370, 13944, 2434, 214, -56>>,
      <<0, 27605, 26359, 15271, 214, -53, 0, 3032, 11716, 9746, 171, -53>>,
      <<0, 27605, 26359, 15271, 214, -54, 0, 32661, 24062, 28430, 233, -53>>,
      <<0, 27605, 26359, 15271, 214, -55, 0, 128, 25844, 13296, 250, -53>>,
      <<0, 27605, 26359, 15271, 214, -56, 0, 26566, 10736, 19582, 254, -53>>,
      <<0, 27605, 26359, 15271, 214, -57, 0, 26141, 23077, 21271, 255, -53>>,
      <<0, 28251, 27160, 21554, 187, -50, 0, 32662, 24062, 28430, 233, -53>>,
      <<0, 28251, 27160, 21554, 187, -51, 1, 128, 25844, 13296, 250, -53>>,
      <<0, 28251, 27160, 21554, 187, -52, 0, 22379, 13944, 2434, 214, -56>>,
      <<0, 28251, 27160, 21554, 187, -53, 0, 16066, 20583, 8030, 190, -53>>,
      <<0, 28251, 27160, 21554, 187, -54, 0, 14341, 7679, 32656, 238, -53>>,
      <<0, 28896, 27961, 27837, 160, -50, 0, 26956, 28255, 7100, 158, -54>>,
      <<0, 28896, 27961, 27837, 160, -51, 1, 29863, 14127, 3550, 207, -53>>,
      <<0, 28896, 27961, 27837, 160, -52, 0, 26960, 28255, 7100, 158, -54>>,
      <<0, 28896, 27961, 27837, 160, -53, 0, 29864, 14127, 3550, 207, -53>>,
      <<0, 28896, 27961, 27837, 160, -54, 0, 21759, 9864, 15416, 243, -53>>,
      <<0, 28896, 27961, 27837, 160, -55, 0, 25692, 10335, 27794, 252, -53>>,
      <<0, 29541, 28762, 1352, 134, -50, 1, 4, 0, 0, 128, -53>>,
      <<0, 29541, 28762, 1352, 134, -51, 1, 32764, 32767, 32767, 255, -54>>,
      <<0, 29541, 28762, 1352, 134, -52, 0, 1, 0, 0, 128, -53>>,
      <<0, 29541, 28762, 1352, 134, -53, 0, 19627, 20656, 23019, 221, -53>>,
      <<0, 29541, 28762, 1352, 134, -54, 0, 16149, 3729, 9077, 247, -53>>,
      <<0, 30339, 16970, 32187, 185, -50, 0, 11372, 14970, 3200, 228, -53>>,
      <<0, 30362, 18013, 6756, 245, -55, 0, 12655, 23592, 22786, 248, -53>>,
      <<0, 3039, 30961, 482, 129, -50, 1, 31419, 2192, 3474, 161, -53>>,
      <<0, 304, 7582, 16335, 157, -50, 0, 22746, 22660, 29542, 212, -55>>,
      <<0, 304, 7582, 16335, 157, -51, 1, 8998, 27179, 31108, 198, -53>>,
      <<0, 30985, 17771, 5702, 159, -50, 0, 1687, 806, 16887, 132, -54>>,
      <<0, 31137, 5178, 30254, 237, -51, 1, 12252, 20828, 22926, 214, -53>>,
      <<0, 31630, 18572, 11985, 132, -50, 1, 30492, 12000, 14011, 139, -53>>,
      <<0, 31782, 5979, 3769, 211, -51, 1, 25692, 10335, 27794, 252, -53>>,
      <<0, 3190, 18368, 25034, 207, -51, 1, 26567, 10736, 19582, 254, -53>>,
      <<0, 3190, 18368, 25034, 207, -52, 1, 18671, 4575, 12061, 214, -57>>,
      <<0, 32314, 19963, 24325, 245, -55, 0, 30213, 28100, 21743, 248, -53>>,
      <<0, 32427, 6780, 10052, 184, -50, 0, 19624, 20656, 23019, 221, -53>>,
      <<0, 32427, 6780, 10052, 184, -51, 1, 16148, 3729, 9077, 247, -53>>,
      <<0, 3836, 19169, 31317, 180, -50, 0, 29863, 14127, 3550, 207, -53>>,
      <<0, 3836, 19169, 31317, 180, -51, 1, 21759, 9864, 15416, 243, -53>>,
      <<0, 3836, 19169, 31317, 180, -52, 0, 21367, 20304, 6189, 160, -55>>,
      <<0, 4481, 19970, 4832, 154, -50, 0, 22345, 13944, 2434, 214, -56>>,
      <<0, 4481, 19970, 4832, 154, -51, 1, 16064, 20583, 8030, 190, -53>>,
      <<0, 4481, 19970, 4832, 154, -52, 0, 21310, 16285, 15872, 183, -54>>,
      <<0, 5924, 8979, 9182, 179, -50, 0, 8997, 27179, 31108, 198, -53>>,
      <<0, 6570, 9780, 15465, 152, -50, 0, 18718, 4575, 12061, 214, -57>>,
      <<0, 6721, 29955, 7248, 231, -51, 1, 11375, 14970, 3200, 228, -53>>,
      <<0, 7367, 30756, 13531, 204, -51, 1, 26141, 23077, 21271, 255, -53>>,
      <<0, 8013, 31557, 19814, 177, -50, 0, 16066, 20583, 8030, 190, -53>>,
      <<0, 8013, 31557, 19814, 177, -51, 1, 14341, 7679, 32656, 238, -53>>,
      <<0, 8658, 32358, 26097, 150, -50, 1, 2570, 6461, 25829, 211, -105>>,
      <<0, 8658, 32358, 26097, 150, -51, 1, 15308, 19710, 633, 181, -53>>,
      <<0, 950, 8383, 22618, 130, -50, 1, 23135, 2282, 15500, 150, -53>>,
      <<0, 950, 8383, 22618, 130, -51, 1, 24063, 22153, 14520, 232, -54>>,
      <<1, 22182, 20892, 31862, 221, -56, 0, 12641, 15793, 16312, 254, -53>> }

AsinValues ==
    { <<0, 1019, 26186, 17878, 243, -55, 0, 25280, 16426, 29563, 245, -55>>,
      <<0, 1023, 24708, 13058, 243, -55, 0, 20701, 4866, 24601, 245, -55>>,
      <<0, 10237, 31452, 24421, 174, -56, 0, 30569, 24543, 31392, 174, -56>>,
      <<0, 10388, 7707, 8652, 243, -55, 0, 15929, 22549, 20064, 245, -55>>,
      <<0, 1074, 8694, 12256, 243, -55, 0, 28359, 32258, 23774, 245, -55>>,
      <<0, 10912, 12765, 18519, 179, -56, 0, 21497, 14367, 26084, 179, -56>>,
      <<0, 11231, 18384, 30690, 170, -56, 0, 31896, 15930, 4446, 171, -56>>,
      <<0, 11232, 18384, 30690, 170, -56, 0, 31897, 15930, 4446, 171, -56>>,
      <<0, 11322, 5711, 11698, 163, -56, 0, 5501, 20090, 17390, 163, -56>>,
      <<0, 11341, 15847, 10468, 243, -55, 0, 24139, 15623, 21934, 245, -55>>,
      <<0, 1138, 30929, 11466, 243, -55, 0, 14874, 12484, 22962, 245, -55>>,
      <<0, 11611, 16295, 16010, 243, -55, 0, 14385, 594, 27640, 245, -55>>,
      <<0, 11620, 25961, 8232, 243, -55, 0, 2163, 28977, 19632, 245, -55>>,
      <<0, 11737, 21890, 8560, 179, -56, 0, 3233, 9226, 16087, 179, -56>>,
      <<0, 1259, 27124, 2713, 178, -56, 0, 27930, 21096, 10092, 178, -56>>,
      <<0, 12925, 9289, 15577, 243, -55, 0, 13608, 425, 27194, 245, -55>>,
      <<0, 12996, 27402, 30251, 164, -56, 0, 5058, 29695, 3341, 165, -56>>,
      <<0, 1301, 23725, 11990, 243, -55, 0, 25461, 19993, 23501, 245, -55>>,
      <<0, 13282, 19306, 20491, 163, -56, 0, 17394, 5959, 26212, 163, -56>>,
      <<0, 13532, 32604, 7786, 243, -55, 0, 31066, 31160, 19173, 245, -55>>,
      <<0, 13778, 4071, 18212, 178, -56, 0, 28680, 792, 25650, 178, -56>>,
      <<0, 13851, 19263, 7925, 243, -55, 0, 1217, 20562, 19316, 245, -55>>,
      <<0, 14148, 17515, 7776, 177, -56, 0, 6158, 16842, 15050, 177, -56>>,
      <<0, 14340, 28584, 26848, 165, -56, 0, 7880, 4786, 35, 166, -56>>,
      <<0, 14361, 25139, 13525, 164, -56, 0, 5022, 16639, 19329, 164, -56>>,
      <<0, 14505, 30081, 31130, 178, -56, 0, 26319, 10132, 5850, 179, -56>>,
      <<0, 14799, 14344, 16408, 243, -55, 0, 16775, 23256, 28049, 245, -55>>,
      <<0, 14896, 25175, 21163, 169, -56, 0, 19897, 23547, 27540, 169, -56>>,
      <<0, 15396, 21301, 13854, 243, -55, 0, 19075, 17377, 25420, 245, -55>>,
      <<0, 15497, 490, 9784, 243, -55, 0, 29816, 27133, 21229, 245, -55>>,
      <<0, 15503, 9220, 8815, 243, -55, 0, 2506, 17683, 20232, 245, -55>>,
      <<0, 15536, 26344, 8105, 176, -56, 0, 7157, 10073, 15258, 176, -56>>,
      <<0, 15999, 1117, 17567, 243, -55, 0, 266, 17244, 29242, 245, -55>>,
      <<0, 16117, 5204, 16214, 243, -55, 0, 16961, 22728, 27849, 245, -55>>,
      <<0, 16287, 7386, 10710, 243, -55, 0, 16117, 11360, 22183, 245, -55>>,
      <<0, 16577, 18506, 8375, 163, -56, 0, 3746, 12771, 14057, 163, -56>>,
      <<0, 16664, 27003, 17906, 243, -55, 0, 3753, 11606, 29592, 245, -55>>,
      <<0, 16981, 6107, 7738, 243, -55, 0, 17943, 23075, 19123, 245, -55>>,
      <<0, 17061, 29909, 30623, 173, -56, 0, 9151, 30106, 4729, 174, -56>>,
      <<0, 18135, 25402, 2434, 163, -56, 0, 757, 21488, 8097, 163, -56>>,
      <<0, 18430, 14266, 17221, 243, -55, 0, 774, 23556, 28886, 245, -55>>,
      <<0, 19013, 27927, 21910, 172, -56, 0, 5892, 17760, 28635, 172, -56>>,
      <<0, 19253, 2643, 29144, 175, -56, 0, 21913, 32609, 3484, 176, -56>>,
      <<0, 19254, 2643, 29144, 175, -56, 0, 21914, 32609, 3484, 176, -56>>,
      <<0, 19260, 30101, 15348, 243, -55, 0, 1511, 29683, 26958, 245, -55>>,
      <<0, 19298, 19831, 12150, 171, -56, 0, 1295, 15645, 18724, 171, -56>>,
      <<0, 19342, 4251, 27925, 166, -56, 0, 31141, 19183, 1223, 167, -56>>,
      <<0, 19583, 11735, 2390, 170, -56, 0, 25308, 22674, 8815, 170, -56>>,
      <<0, 20160, 16161, 17081, 243, -55, 0, 25596, 21076, 28742, 245, -55>>,
      <<0, 20273, 6989, 7682, 243, -55, 0, 20674, 2684, 19066, 245, -55>>,
      <<0, 20461, 14260, 21866, 179, -56, 0, 4089, 14134, 29444, 179, -56>>,
      <<0, 21340, 17661, 17464, 243, -55, 0, 13734, 112, 29137, 245, -55>>,
      <<0, 21535, 9753, 26445, 168, -56, 0, 8764, 30453, 32727, 168, -56>>,
      <<0, 21857, 431, 12791, 243, -55, 0, 23982, 16649, 24325, 245, -55>>,
      <<0, 22019, 21156, 15925, 179, -56, 0, 11913, 22002, 23480, 179, -56>>,
      <<0, 22374, 15969, 8117, 243, -55, 0, 31714, 5950, 19514, 245, -55>>,
      <<0, 23060, 13318, 16195, 166, -56, 0, 32669, 26987, 22222, 166, -56>>,
      <<0, 2333, 22617, 7292, 167, -56, 0, 23050, 23354, 13399, 167, -56>>,
      <<0, 23441, 26641, 17899, 243, -55, 0, 6079, 4457, 29585, 245, -55>>,
      <<0, 23554, 17469, 8500, 243, -55, 0, 31638, 16884, 19908, 245, -55>>,
      <<0, 23700, 14487, 3137, 173, -56, 0, 31987, 8587, 9912, 173, -56>>,
      <<0, 24091, 9581, 25938, 163, -56, 0, 23616, 12137, 31676, 163, -56>>,
      <<0, 24235, 14523, 10775, 178, -56, 0, 15883, 31231, 18184, 178, -56>>,
      <<0, 24255, 11078, 30220, 176, -56, 0, 23714, 16618, 4687, 177, -56>>,
      <<0, 24256, 11078, 30220, 176, -56, 0, 23715, 16618, 4687, 177, -56>>,
      <<0, 24448, 22147, 16524, 165, -56, 0, 11724, 220, 22445, 165, -56>>,
      <<0, 24454, 3529, 10233, 243, -55, 0, 17849, 5273, 21692, 245, -55>>,
      <<0, 24818, 2823, 6089, 164, -56, 0, 2608, 25547, 11868, 164, -56>>,
      <<0, 25284, 19364, 8360, 243, -55, 0, 26919, 14714, 19764, 245, -55>>,
      <<0, 25314, 20356, 3809, 179, -56, 0, 21770, 30944, 11317, 179, -56>>,
      <<0, 25600, 12260, 26817, 177, -56, 0, 22513, 9703, 1395, 178, -56>>,
      <<0, 26733, 27523, 17843, 243, -55, 0, 6998, 16690, 29527, 245, -55>>,
      <<0, 26859, 17772, 15740, 163, -56, 0, 31799, 29887, 21445, 163, -56>>,
      <<0, 27050, 6627, 7675, 243, -55, 0, 28107, 28321, 19058, 245, -55>>,
      <<0, 27274, 1183, 12603, 179, -56, 0, 22758, 7708, 20145, 179, -56>>,
      <<0, 27365, 21278, 26378, 171, -56, 0, 30168, 23717, 234, 172, -56>>,
      <<0, 27427, 26244, 14871, 243, -55, 0, 18257, 23035, 26467, 245, -55>>,
      <<0, 2750, 16615, 17732, 243, -55, 0, 11807, 29079, 29412, 245, -55>>,
      <<0, 27597, 28426, 9367, 243, -55, 0, 25115, 13538, 20801, 245, -55>>,
      <<0, 27684, 26897, 5781, 163, -56, 0, 25936, 12107, 11455, 163, -56>>,
      <<0, 27715, 32513, 8014, 243, -55, 0, 22308, 21832, 19408, 245, -55>>,
      <<0, 2774, 27038, 19800, 167, -56, 0, 17565, 27830, 25949, 167, -56>>,
      <<0, 2818, 11458, 2807, 163, -56, 0, 8470, 13666, 8471, 163, -56>>,
      <<0, 28211, 24410, 16766, 243, -55, 0, 23387, 19619, 28418, 245, -55>>,
      <<0, 28217, 372, 15798, 243, -55, 0, 21206, 8455, 27421, 245, -55>>,
      <<0, 28318, 12329, 11727, 243, -55, 0, 13564, 16208, 23230, 245, -55>>,
      <<0, 28359, 8210, 32647, 167, -56, 0, 6628, 20087, 6071, 168, -56>>,
      <<0, 28915, 19286, 9173, 243, -55, 0, 6752, 13357, 20601, 245, -55>>,
      <<0, 29280, 17685, 19397, 176, -56, 0, 18091, 5670, 26592, 176, -56>>,
      <<0, 29863, 14367, 17656, 243, -55, 0, 31748, 18732, 29334, 245, -55>>,
      <<0, 3010, 28205, 21493, 179, -56, 0, 28356, 13596, 29070, 179, -56>>,
      <<0, 30182, 1026, 17795, 243, -55, 0, 16118, 8480, 29477, 245, -55>>,
      <<0, 3054, 12625, 4500, 175, -56, 0, 23260, 9850, 11518, 175, -56>>,
      <<0, 30789, 24341, 10004, 243, -55, 0, 8979, 2072, 21457, 245, -55>>,
      <<0, 31260, 12428, 6727, 165, -56, 0, 1918, 20296, 12615, 165, -56>>,
      <<0, 3154, 29022, 14371, 243, -55, 0, 19795, 1030, 25953, 245, -55>>,
      <<0, 32094, 7669, 17349, 243, -55, 0, 23650, 9584, 29018, 245, -55>>,
      <<0, 32103, 17335, 9571, 243, -55, 0, 6776, 2562, 21011, 245, -55>>,
      <<0, 32121, 1697, 3924, 163, -56, 0, 10106, 22200, 9591, 163, -56>>,
      <<0, 32301, 15970, 25003, 178, -56, 0, 32534, 12364, 32467, 178, -56>>,
      <<0, 32373, 17783, 15113, 243, -55, 0, 29869, 19041, 26716, 245, -55>>,
      <<0, 32424, 3499, 16977, 173, -56, 0, 20941, 24485, 23801, 173, -56>>,
      <<0, 32544, 22788, 7799, 172, -56, 0, 26635, 2922, 14474, 172, -56>>,
      <<0, 3495, 17046, 17008, 175, -56, 0, 7112, 17203, 24072, 175, -56>>,
      <<0, 3556, 26266, 16592, 243, -55, 0, 19307, 16980, 28239, 245, -55>>,
      <<0, 4211, 11660, 14624, 243, -55, 0, 1042, 31250, 26212, 245, -55>>,
      <<0, 4569, 12539, 21587, 164, -56, 0, 27884, 8736, 27417, 164, -56>>,
      <<0, 4897, 24752, 13028, 168, -56, 0, 29260, 22595, 19265, 168, -56>>,
      <<0, 558, 25924, 16929, 243, -55, 0, 12870, 15088, 28586, 245, -55>>,
      <<0, 6052, 16874, 16501, 170, -56, 0, 31087, 28942, 22975, 170, -56>>,
      <<0, 6172, 3395, 7324, 169, -56, 0, 30855, 14622, 13653, 169, -56>>,
      <<0, 6295, 23692, 32065, 163, -56, 0, 15199, 16853, 5055, 164, -56>>,
      <<0, 6475, 5197, 20377, 179, -56, 0, 10809, 12845, 27949, 179, -56>>,
      <<0, 6735, 21971, 10957, 243, -55, 0, 23438, 2900, 22438, 245, -55>>,
      <<0, 7336, 27234, 17573, 177, -56, 0, 9102, 25192, 24884, 177, -56>>,
      <<0, 7390, 7365, 8989, 243, -55, 0, 18438, 19979, 20411, 245, -55>>,
      <<0, 7792, 4609, 11210, 243, -55, 0, 27062, 133, 22698, 245, -55>>,
      <<0, 8196, 17016, 7849, 243, -55, 0, 19204, 10404, 19238, 245, -55>>,
      <<0, 931, 14911, 11272, 174, -56, 0, 18715, 7403, 18195, 174, -56>>,
      <<0, 9316, 21977, 4903, 166, -56, 0, 17206, 21824, 10893, 166, -56>>,
      <<0, 9317, 21977, 4903, 166, -56, 0, 17207, 21824, 10893, 166, -56>>,
      <<0, 9645, 9906, 13591, 243, -55, 0, 29421, 13467, 25149, 245, -55>>,
      <<0, 9808, 2702, 14115, 243, -55, 0, 1168, 21259, 25688, 245, -55>>,
      <<0, 9872, 24937, 13325, 243, -55, 0, 743, 1113, 24876, 245, -55>>,
      <<0, 9923, 8923, 12523, 243, -55, 0, 32368, 28450, 24049, 245, -55>>,
      <<0, 9927, 7445, 7703, 243, -55, 0, 25441, 23428, 19087, 245, -55>> }

Atan2Values ==
    { <<0, 0, 0, 0, 0, 0, 0, 0, 0, 0, 128, -52, 0, 0, 0, 0, 0, 0>>,
      <<0, 0, 0, 0, 0, 0, 0, 11884, 32739, 17304, 241, -53, 0, 0, 0, 0, 0, 0>>,
      <<0, 0, 0, 0, 0, 0, 0, 7695, 23248, 3886, 254, -53, 0, 0, 0, 0, 0, 0>>,
      <<0, 10417, 7508, 9703, 197, -61, 0, 15080, 18456, 4827, 254, -53, 0, 8297, 19587, 24043, 198, -61>>,
      <<0, 10418, 7508, 9703, 197, -61, 0, 26354, 549, 8633, 254, -53, 0, 4908, 8259, 21069, 198, -61>>,
      <<0, 10465, 315, 17546, 242, -61, 0, 14227, 22990, 5573, 254, -53, 0, 17676, 15171, 9190, 244, -61>>,
      <<0, 10466, 315, 17546, 242, -61, 0, 27207, 28783, 7886, 254, -53, 0, 1216, 30427, 6967, 244, -61>>,
      <<0, 10687, 11804, 1638, 156, -61, 0, 2712, 25724, 4429, 254, -53, 0, 30734, 11188, 6382, 157, -61>>,
      <<0, 10688, 11804, 1638, 156, -61, 0, 5953, 26050, 9030, 254, -53, 0, 11717, 32082, 3537, 157, -61>>,
      <<0, 10767, 21201, 27632, 129, -60, 0, 22610, 2502, 6139, 254, -53, 0, 182, 28572, 25182, 130, -60>>,
      <<0, 10768, 21201, 27632, 129, -60, 0, 18823, 16503, 7321, 254, -53, 0, 25421, 21511, 24574, 130, -60>>,
      <<0, 11283, 5785, 29225, 147, -53, 0, 8469, 17123, 31434, 208, -53, 0, 4646, 535, 22063, 157, -53>>,
      <<0, 11849, 23768, 31280, 132, -67, 0, 18478, 21037, 17311, 241, -53, 0, 22973, 7414, 30175, 140, -67>>,
      <<0, 11849, 23768, 31280, 132, -67, 0, 19256, 10953, 17906, 241, -53, 0, 24008, 9051, 29828, 140, -67>>,
      <<0, 11897, 6009, 16079, 185, -55, 0, 27215, 29706, 25064, 251, -53, 0, 22321, 4175, 17052, 186, -55>>,
      <<0, 11920, 17243, 18100, 183, -64, 0, 8540, 15922, 32767, 255, -53, 0, 16515, 21269, 18100, 183, -64>>,
      <<0, 11969, 29998, 28604, 185, -55, 0, 16653, 16785, 24487, 251, -53, 0, 13091, 245, 29789, 186, -55>>,
      <<0, 12043, 20632, 29518, 157, -65, 0, 27395, 17776, 17656, 241, -53, 0, 17788, 21738, 11616, 167, -65>>,
      <<0, 12044, 20632, 29518, 157, -65, 0, 10338, 14214, 17561, 241, -53, 0, 31473, 18414, 11682, 167, -65>>,
      <<0, 12064, 18073, 32291, 195, -53, 0, 6566, 24664, 22898, 164, -53, 0, 27431, 3245, 6965, 223, -53>>,
      <<0, 1238, 17933, 2158, 208, -64, 0, 9675, 11122, 32767, 255, -53, 0, 8944, 23797, 2158, 208, -64>>,
      <<0, 12567, 3982, 25703, 214, -61, 0, 1639, 23092, 8401, 254, -53, 0, 32645, 29160, 8405, 216, -61>>,
      <<0, 12567, 3982, 25703, 214, -61, 0, 7026, 28682, 5058, 254, -53, 0, 28498, 7784, 11250, 216, -61>>,
      <<0, 12610, 18860, 30495, 185, -55, 0, 5160, 8270, 24400, 251, -53, 0, 24743, 20190, 31711, 186, -55>>,
      <<0, 1278, 20094, 10262, 222, -65, 0, 6767, 31900, 9569, 254, -53, 0, 14589, 14427, 26422, 223, -65>>,
      <<0, 1281, 20094, 10262, 222, -65, 0, 1898, 19874, 3890, 254, -53, 0, 27910, 11391, 31424, 223, -65>>,
      <<0, 12974, 20838, 11036, 129, -65, 0, 14124, 21902, 17787, 241, -53, 0, 25598, 28897, 2557, 137, -65>>,
      <<0, 12974, 20838, 11036, 129, -65, 0, 23609, 10088, 17430, 241, -53, 0, 5203, 22834, 2760, 137, -65>>,
      <<0, 13027, 7981, 19517, 128, -64, 0, 19112, 24499, 32767, 255, -53, 0, 28822, 9365, 19517, 128, -64>>,
      <<0, 13554, 884, 10349, 186, -55, 0, 3046, 505, 23817, 251, -53, 0, 9008, 28435, 11778, 187, -55>>,
      <<0, 13787, 971, 18221, 183, -64, 0, 19189, 15921, 32767, 255, -53, 0, 26312, 4997, 18221, 183, -64>>,
      <<0, 13840, 18199, 10125, 239, -67, 0, 19251, 32320, 32767, 255, -53, 0, 27401, 18338, 10125, 239, -67>>,
      <<0, 14097, 4555, 30579, 147, -53, 0, 14831, 1593, 30476, 208, -53, 0, 14322, 29408, 23721, 157, -53>>,
      <<0, 14721, 7908, 796, 196, -53, 0, 24914, 30688, 21383, 164, -53, 0, 19547, 19174, 8943, 223, -53>>,
      <<0, 14753, 15963, 18374, 193, -53, 0, 18603, 2292, 17752, 167, -53, 0, 4265, 31648, 15597, 219, -53>>,
      <<0, 1530, 2904, 18420, 132, -60, 0, 413, 15352, 6581, 254, -53, 0, 6556, 27430, 16371, 133, -60>>,
      <<0, 1530, 2904, 18420, 132, -60, 0, 8252, 3654, 6879, 254, -53, 0, 14223, 17370, 16215, 133, -60>>,
      <<0, 15954, 3431, 279, 222, -64, 0, 16920, 9401, 3902, 254, -53, 0, 22151, 10394, 21356, 223, -64>>,
      <<0, 15975, 3431, 279, 222, -64, 0, 24513, 9604, 9558, 254, -53, 0, 22401, 26591, 16381, 223, -64>>,
      <<0, 16018, 21673, 28852, 202, -54, 0, 2708, 6643, 1455, 235, -53, 0, 8578, 29920, 19796, 208, -54>>,
      <<0, 16072, 2097, 21299, 159, -65, 0, 29776, 29415, 17624, 241, -53, 0, 14933, 28034, 6850, 169, -65>>,
      <<0, 16072, 2097, 21299, 159, -65, 0, 7958, 2575, 17593, 241, -53, 0, 22344, 4799, 6873, 169, -65>>,
      <<0, 16222, 10637, 30716, 187, -66, 0, 16794, 1830, 17363, 241, -53, 0, 3748, 22673, 6447, 199, -66>>,
      <<0, 16222, 10637, 30716, 187, -66, 0, 20940, 30160, 17854, 241, -53, 0, 8056, 2032, 6042, 199, -66>>,
      <<0, 16267, 6586, 29403, 177, -53, 0, 21641, 8793, 2897, 184, -53, 0, 20023, 17163, 22411, 196, -53>>,
      <<0, 16777, 18096, 4252, 255, -66, 0, 29487, 30733, 32767, 255, -53, 0, 7882, 18772, 4252, 255, -66>>,
      <<0, 168, 16069, 28447, 202, -54, 0, 23425, 20684, 1542, 235, -53, 0, 31209, 20354, 19355, 208, -54>>,
      <<0, 17444, 9524, 1060, 174, -53, 0, 22280, 15195, 24460, 187, -53, 0, 4448, 22209, 11870, 191, -53>>,
      <<0, 17959, 6150, 11706, 191, -64, 0, 6615, 14459, 32767, 255, -53, 0, 13917, 10712, 11706, 191, -64>>,
      <<0, 18601, 9168, 24381, 132, -61, 0, 1111, 22185, 4267, 254, -53, 0, 24581, 16286, 23610, 133, -61>>,
      <<0, 18601, 9168, 24381, 132, -61, 0, 7554, 29589, 9192, 254, -53, 0, 18744, 14300, 21020, 133, -61>>,
      <<0, 18602, 9168, 24381, 132, -60, 0, 4333, 9503, 6730, 254, -53, 0, 26518, 28104, 22296, 133, -60>>,
      <<0, 18684, 31050, 4425, 255, -66, 0, 26723, 30733, 32767, 255, -53, 0, 11166, 31726, 4425, 255, -66>>,
      <<0, 18691, 16192, 304, 186, -55, 0, 605, 8993, 24281, 251, -53, 0, 29382, 3688, 1564, 187, -55>>,
      <<0, 1875, 28866, 8139, 205, -53, 0, 28845, 22358, 9, 153, -53, 0, 17032, 3334, 4469, 238, -53>>,
      <<0, 18998, 21977, 282, 205, -53, 0, 31672, 27940, 10532, 153, -53, 0, 17883, 6811, 24104, 237, -53>>,
      <<0, 19137, 8143, 4339, 255, -66, 0, 28105, 30733, 32767, 255, -53, 0, 10930, 8819, 4339, 255, -66>>,
      <<0, 19524, 15743, 7135, 201, -66, 0, 14672, 24389, 17372, 241, -53, 0, 11984, 16784, 8929, 213, -66>>,
      <<0, 19528, 15743, 7135, 201, -66, 0, 23062, 7601, 17845, 241, -53, 0, 20928, 10742, 8512, 213, -66>>,
      <<0, 19586, 24727, 13628, 220, -66, 0, 25419, 31249, 32767, 255, -53, 0, 10745, 25163, 13628, 220, -66>>,
      <<0, 19966, 19962, 30128, 229, -61, 0, 22398, 16375, 5308, 254, -53, 0, 3464, 29111, 19043, 231, -61>>,
      <<0, 19967, 19962, 30128, 229, -61, 0, 19035, 2630, 8152, 254, -53, 0, 4384, 27836, 16453, 231, -61>>,
      <<0, 20201, 344, 16194, 252, -61, 0, 17415, 18851, 5851, 254, -53, 0, 12175, 3234, 9905, 254, -61>>,
      <<0, 20202, 344, 16194, 252, -61, 0, 24018, 154, 7609, 254, -53, 0, 514, 6637, 8147, 254, -61>>,
      <<0, 20698, 22395, 2643, 164, -62, 0, 1055, 28974, 4025, 254, -53, 0, 31416, 10887, 9588, 165, -62>>,
      <<0, 20700, 22395, 2643, 164, -62, 0, 7610, 22800, 9434, 254, -53, 0, 5718, 16131, 6072, 165, -62>>,
      <<0, 20858, 3353, 13984, 137, -62, 0, 26887, 19730, 3983, 254, -53, 0, 19844, 13863, 14501, 138, -62>>,
      <<0, 20863, 3353, 13984, 137, -62, 0, 14546, 32043, 9476, 254, -53, 0, 474, 21939, 11510, 138, -62>>,
      <<0, 20906, 13009, 11511, 191, -64, 0, 11121, 14460, 32767, 255, -53, 0, 2933, 17571, 11511, 191, -64>>,
      <<0, 20971, 13387, 22510, 133, -68, 0, 12374, 21771, 17306, 241, -53, 0, 29177, 23069, 22845, 141, -68>>,
      <<0, 20984, 13387, 22510, 133, -68, 0, 25359, 10219, 17911, 241, -53, 0, 27518, 95, 22491, 141, -68>>,
      <<0, 21294, 26850, 2852, 191, -53, 0, 20703, 2189, 11720, 170, -53, 0, 24333, 1017, 23850, 215, -53>>,
      <<0, 21311, 27442, 3291, 174, -53, 0, 19050, 5557, 22391, 187, -53, 0, 23967, 32602, 14913, 191, -53>>,
      <<0, 21317, 15959, 18550, 193, -53, 0, 5369, 23952, 17548, 167, -53, 0, 20126, 29315, 15866, 219, -53>>,
      <<0, 21507, 16795, 573, 196, -53, 0, 11766, 2993, 21649, 164, -53, 0, 25484, 9746, 8597, 223, -53>>,
      <<0, 21616, 3184, 19571, 128, -64, 0, 12187, 24499, 32767, 255, -53, 0, 6382, 4569, 19571, 128, -64>>,
      <<0, 21640, 26936, 4220, 191, -53, 0, 6958, 7367, 10185, 170, -53, 0, 26612, 1297, 25906, 215, -53>>,
      <<0, 21787, 23281, 29653, 147, -53, 0, 23381, 6737, 31131, 208, -53, 0, 18445, 1081, 22588, 157, -53>>,
      <<0, 21925, 29710, 25202, 204, -53, 0, 9684, 5750, 21009, 153, -53, 0, 8412, 15981, 11014, 237, -53>>,
      <<0, 2198, 32678, 11900, 191, -64, 0, 2105, 14458, 32767, 255, -53, 0, 12088, 4472, 11901, 191, -64>>,
      <<0, 21991, 8368, 4945, 255, -64, 0, 91, 217, 32767, 255, -53, 0, 538, 19183, 4945, 255, -64>>,
      <<0, 22889, 7532, 18076, 236, -61, 0, 15084, 10861, 5439, 254, -53, 0, 5560, 21286, 8437, 238, -61>>,
      <<0, 22890, 7532, 18076, 236, -61, 0, 26349, 8144, 8021, 254, -53, 0, 13621, 3559, 6018, 238, -61>>,
      <<0, 22999, 32697, 850, 174, -53, 0, 26365, 15136, 24654, 187, -53, 0, 9165, 9927, 11585, 191, -53>>,
      <<0, 2318, 17557, 18341, 183, -64, 0, 29837, 15920, 32767, 255, -53, 0, 22773, 21583, 18341, 183, -64>>,
      <<0, 23339, 6011, 8463, 137, -64, 0, 2710, 23348, 32767, 255, -53, 0, 8390, 7695, 8463, 137, -64>>,
      <<0, 23482, 12125, 28478, 159, -66, 0, 11445, 23787, 17345, 241, -53, 0, 4982, 29781, 14655, 169, -66>>,
      <<0, 23482, 12125, 28478, 159, -66, 0, 26288, 8203, 17872, 241, -53, 0, 19621, 17861, 14286, 169, -66>>,
      <<0, 23483, 12125, 28478, 159, -65, 0, 18867, 32379, 17608, 241, -53, 0, 13106, 6048, 14471, 169, -65>>,
      <<0, 24037, 12945, 8293, 186, -55, 0, 26794, 2988, 23912, 251, -53, 0, 23356, 11558, 9688, 187, -55>>,
      <<0, 24205, 27993, 552, 132, -60, 0, 8794, 1799, 6433, 254, -53, 0, 11829, 2120, 31224, 132, -60>>,
      <<0, 24206, 27993, 552, 132, -60, 0, 32639, 17206, 7027, 254, -53, 0, 22484, 5347, 30913, 132, -60>>,
      <<0, 2429, 12803, 19463, 128, -64, 0, 26037, 24499, 32767, 255, -53, 0, 16484, 14187, 19463, 128, -64>>,
      <<0, 24372, 19921, 4649, 174, -66, 0, 6976, 30631, 17863, 241, -53, 0, 4073, 24696, 18451, 184, -66>>,
      <<0, 24373, 19921, 4649, 174, -66, 0, 30757, 1359, 17354, 241, -53, 0, 22783, 12613, 18841, 184, -66>>,
      <<0, 24497, 29641, 2525, 167, -61, 0, 14126, 13529, 4520, 254, -53, 0, 2232, 1946, 9859, 168, -61>>,
      <<0, 24500, 29641, 2525, 167, -61, 0, 27307, 5476, 8940, 254, -53, 0, 12772, 22187, 6933, 168, -61>>,
      <<0, 24596, 14378, 29854, 147, -53, 0, 26235, 3800, 30989, 208, -53, 0, 3997, 31539, 22833, 157, -53>>,
      <<0, 24639, 7740, 3905, 186, -55, 0, 10654, 30762, 24114, 251, -53, 0, 9178, 26525, 5225, 187, -55>>,
      <<0, 24949, 6002, 6720, 186, -55, 0, 22021, 27264, 23984, 251, -53, 0, 16371, 15088, 8088, 187, -55>>,
      <<0, 24958, 9692, 316, 174, -53, 0, 26173, 955, 25150, 187, -53, 0, 28286, 8754, 10856, 191, -53>>,
      <<0, 25064, 7615, 4785, 191, -53, 0, 15987, 24875, 9551, 170, -53, 0, 24022, 15472, 26754, 215, -53>>,
      <<0, 25079, 22804, 16988, 193, -53, 0, 20693, 21769, 19352, 167, -53, 0, 28068, 26766, 13480, 219, -53>>,
      <<0, 25161, 29768, 17034, 193, -53, 0, 13211, 9891, 19299, 167, -53, 0, 19513, 13379, 13551, 219, -53>>,
      <<0, 25206, 27952, 30370, 185, -55, 0, 32103, 313, 24406, 251, -53, 0, 19023, 25737, 31584, 186, -55>>,
      <<0, 25485, 30238, 2020, 174, -53, 0, 32153, 28258, 23569, 187, -53, 0, 8319, 20769, 13180, 191, -53>>,
      <<0, 26201, 20930, 1875, 186, -55, 0, 27974, 23205, 24208, 251, -53, 0, 15360, 27691, 3161, 187, -55>>,
      <<0, 26668, 22120, 10971, 208, -53, 0, 14121, 27761, 25240, 148, -53, 0, 16166, 15666, 12215, 243, -53>>,
      <<0, 26755, 1767, 22273, 185, -55, 0, 5436, 17809, 24779, 251, -53, 0, 4700, 9748, 23350, 186, -55>>,
      <<0, 26890, 4799, 2350, 208, -64, 0, 2578, 11121, 32767, 255, -53, 0, 18028, 10664, 2350, 208, -64>>,
      <<0, 26905, 26756, 21530, 222, -61, 0, 17518, 490, 8279, 254, -53, 0, 29767, 29788, 6107, 224, -61>>,
      <<0, 26905, 26756, 21530, 222, -61, 0, 23915, 18515, 5181, 254, -53, 0, 30679, 2269, 8840, 224, -61>>,
      <<0, 26940, 26996, 32548, 158, -65, 0, 10742, 25023, 17640, 241, -53, 0, 15453, 4512, 16801, 168, -65>>,
      <<0, 26940, 26996, 32548, 158, -65, 0, 26991, 6967, 17577, 241, -53, 0, 6185, 15576, 16845, 168, -65>>,
      <<0, 27569, 14820, 21175, 177, -61, 0, 15545, 3206, 4617, 254, -53, 0, 18528, 19916, 30975, 178, -61>>,
      <<0, 27570, 14820, 21175, 177, -61, 0, 25888, 15799, 8843, 254, -53, 0, 23550, 8417, 28001, 178, -61>>,
      <<0, 27630, 15282, 13680, 220, -66, 0, 24707, 31249, 32767, 255, -53, 0, 19096, 15718, 13680, 220, -66>>,
      <<0, 27718, 27165, 16667, 165, -67, 0, 1002, 11708, 17315, 241, -53, 0, 12271, 4234, 13939, 175, -67>>,
      <<0, 27724, 27165, 16667, 165, -67, 0, 3963, 20283, 17902, 241, -53, 0, 30717, 20469, 13512, 175, -67>>,
      <<0, 27883, 14319, 1562, 146, -65, 0, 7632, 11294, 17485, 241, -53, 0, 30202, 1936, 26052, 154, -65>>,
      <<0, 27884, 14319, 1562, 146, -65, 0, 30101, 20696, 17732, 241, -53, 0, 9847, 19064, 25893, 154, -65>>,
      <<0, 2809, 18519, 4085, 186, -55, 0, 23574, 19852, 24106, 251, -53, 0, 17320, 6325, 5409, 187, -55>>,
      <<0, 28685, 16805, 28000, 247, -61, 0, 2905, 11080, 7749, 254, -53, 0, 32017, 1612, 18761, 249, -61>>,
      <<0, 28685, 16805, 28000, 247, -61, 0, 5760, 7926, 5711, 254, -53, 0, 22928, 7437, 20762, 249, -61>>,
      <<0, 28871, 14255, 32160, 195, -53, 0, 17965, 25316, 23054, 164, -53, 0, 1177, 9855, 6761, 223, -53>>,
      <<0, 28965, 21522, 2368, 200, -68, 0, 6014, 24305, 17308, 241, -53, 0, 9758, 7590, 1970, 212, -68>>,
      <<0, 28970, 21522, 2368, 200, -68, 0, 31719, 7685, 17909, 241, -53, 0, 16517, 1410, 1443, 212, -68>>,
      <<0, 29035, 17990, 2917, 226, -66, 0, 19062, 1161, 17394, 241, -53, 0, 19, 6217, 20747, 239, -66>>,
      <<0, 29036, 17990, 2917, 226, -66, 0, 18671, 30829, 17823, 241, -53, 0, 23930, 22452, 20320, 239, -66>>,
      <<0, 29036, 20478, 4127, 166, -63, 0, 17594, 23549, 3921, 254, -53, 0, 2933, 1908, 11638, 167, -63>>,
      <<0, 29041, 20478, 4127, 166, -63, 0, 23840, 28224, 9538, 254, -53, 0, 11368, 9204, 7941, 167, -63>>,
      <<0, 29312, 29315, 7238, 128, -60, 0, 15798, 10394, 5994, 254, -53, 0, 21606, 13080, 4484, 129, -60>>,
      <<0, 29312, 29315, 7238, 128, -60, 0, 25636, 8611, 7466, 254, -53, 0, 3756, 23647, 3736, 129, -60>>,
      <<0, 29593, 11156, 14768, 138, -65, 0, 15375, 32559, 17456, 241, -53, 0, 662, 10470, 24365, 146, -65>>,
      <<0, 29593, 11156, 14768, 138, -65, 0, 22358, 32199, 17760, 241, -53, 0, 10716, 20894, 24180, 146, -65>>,
      <<0, 29608, 6463, 14562, 142, -65, 0, 8657, 32113, 17470, 241, -53, 0, 3003, 32578, 31988, 150, -65>>,
      <<0, 29609, 6463, 14562, 142, -65, 0, 29076, 32645, 17746, 241, -53, 0, 20449, 15384, 31816, 150, -65>>,
      <<0, 29640, 23978, 13817, 154, -65, 0, 4159, 21833, 17687, 241, -53, 0, 26372, 3110, 21837, 163, -65>>,
      <<0, 29640, 23978, 13817, 154, -65, 0, 806, 10158, 17530, 241, -53, 0, 27219, 23627, 21943, 163, -65>>,
      <<0, 29670, 18011, 3596, 131, -60, 0, 20509, 4063, 7175, 254, -53, 0, 27234, 30035, 903, 132, -60>>,
      <<0, 29670, 18011, 3596, 131, -60, 0, 20924, 14942, 6285, 254, -53, 0, 14598, 210, 1366, 132, -60>>,
      <<0, 30406, 14152, 8213, 149, -65, 0, 30630, 30410, 17717, 241, -53, 0, 11562, 29224, 6068, 158, -65>>,
      <<0, 30406, 14152, 8213, 149, -65, 0, 7103, 1580, 17500, 241, -53, 0, 23036, 19184, 6211, 158, -65>>,
      <<0, 31091, 1330, 16468, 193, -53, 0, 19585, 26621, 19953, 167, -53, 0, 16236, 17783, 12685, 219, -53>>,
      <<0, 31124, 10401, 2816, 191, -53, 0, 14994, 332, 11761, 170, -53, 0, 754, 5865, 23795, 215, -53>>,
      <<0, 31265, 18378, 2539, 134, -65, 0, 1060, 13889, 17443, 241, -53, 0, 16121, 4596, 3561, 142, -65>>,
      <<0, 31265, 18378, 2539, 134, -65, 0, 3905, 18102, 17774, 241, -53, 0, 25498, 10637, 3366, 142, -65>>,
      <<0, 31343, 7039, 19503, 144, -61, 0, 3668, 3844, 9115, 254, -53, 0, 5131, 2753, 18811, 145, -61>>,
      <<0, 31344, 7039, 19503, 144, -61, 0, 4998, 15162, 4345, 254, -53, 0, 15642, 8612, 21543, 145, -61>>,
      <<0, 31451, 21200, 10140, 239, -67, 0, 19194, 32320, 32767, 255, -53, 0, 12271, 21340, 10140, 239, -67>>,
      <<0, 31650, 27238, 31766, 195, -53, 0, 1324, 2906, 23523, 164, -53, 0, 24667, 17890, 6149, 223, -53>>,
      <<0, 31670, 22267, 13931, 146, -113, 0, 970, 28526, 9573, 254, -53, 0, 23940, 16197, 13387, 147, -113>>,
      <<0, 31684, 12880, 4252, 255, -64, 0, 13029, 222, 32767, 255, -53, 0, 20443, 23692, 4252, 255, -64>>,
      <<0, 31810, 24186, 23869, 187, -61, 0, 15422, 18839, 4719, 254, -53, 0, 5235, 25584, 3239, 189, -61>>,
      <<0, 31811, 24186, 23869, 187, -61, 0, 26011, 166, 8741, 254, -53, 0, 25554, 1602, 249, 189, -61>>,
      <<0, 32206, 3312, 10133, 239, -67, 0, 19222, 32320, 32767, 255, -53, 0, 13013, 3452, 10133, 239, -67>>,
      <<0, 3817, 26275, 4598, 255, -64, 0, 22952, 219, 32767, 255, -53, 0, 3849, 4320, 4599, 255, -64>>,
      <<0, 3884, 11552, 26797, 185, -55, 0, 5558, 29843, 24570, 251, -53, 0, 5767, 30119, 27950, 186, -55>>,
      <<0, 4148, 12764, 9334, 190, -62, 0, 10716, 37, 9385, 254, -53, 0, 16737, 7536, 18580, 191, -62>>,
      <<0, 4149, 12764, 9334, 190, -62, 0, 30717, 18968, 4075, 254, -53, 0, 13720, 20819, 22582, 191, -62>>,
      <<0, 422, 1419, 13577, 220, -66, 0, 26132, 31249, 32767, 255, -53, 0, 24042, 1854, 13577, 220, -66>>,
      <<0, 4418, 22925, 15834, 248, -66, 0, 17778, 22336, 17417, 241, -53, 0, 31839, 7350, 22415, 131, -65>>,
      <<0, 4421, 22925, 15834, 248, -66, 0, 19956, 9654, 17800, 241, -53, 0, 4827, 20714, 22206, 131, -65>>,
      <<0, 4662, 24790, 17211, 203, -53, 0, 25063, 25197, 9342, 155, -53, 0, 24253, 17586, 8998, 235, -53>>,
      <<0, 4865, 30308, 24276, 185, -55, 0, 31623, 5147, 24687, 251, -53, 0, 21489, 31411, 25387, 186, -55>>,
      <<0, 4890, 10588, 1613, 130, -66, 0, 24918, 9186, 17331, 241, -53, 0, 22467, 9634, 27560, 137, -66>>,
      <<0, 4893, 10588, 1613, 130, -66, 0, 12815, 22804, 17886, 241, -53, 0, 8244, 11121, 27243, 137, -66>>,
      <<0, 4929, 26334, 19957, 197, -67, 0, 29359, 28750, 17319, 241, -53, 0, 22316, 15773, 14713, 209, -67>>,
      <<0, 4932, 26334, 19957, 197, -67, 0, 8374, 3240, 17898, 241, -53, 0, 15700, 3120, 14212, 209, -67>>,
      <<0, 4955, 19716, 12306, 156, -65, 0, 29266, 25731, 17545, 241, -53, 0, 3123, 9299, 24256, 165, -65>>,
      <<0, 4956, 19716, 12306, 156, -65, 0, 8468, 6259, 17672, 241, -53, 0, 13922, 17900, 24169, 165, -65>>,
      <<0, 5041, 19878, 10584, 206, -61, 0, 16166, 25126, 4940, 254, -53, 0, 1251, 26326, 26985, 207, -61>>,
      <<0, 5043, 19878, 10584, 206, -61, 0, 25267, 26647, 8519, 254, -53, 0, 12589, 14133, 24060, 207, -61>>,
      <<0, 5326, 8329, 28194, 202, -54, 0, 32290, 8905, 1597, 235, -53, 0, 12249, 26594, 19079, 208, -54>>,
      <<0, 5508, 21384, 20046, 237, -66, 0, 17059, 18998, 17405, 241, -53, 0, 27559, 14164, 27715, 251, -66>>,
      <<0, 5509, 21384, 20046, 237, -66, 0, 20674, 12992, 17812, 241, -53, 0, 30774, 8656, 27291, 251, -66>>,
      <<0, 5717, 16634, 1459, 152, -65, 0, 20285, 1650, 17515, 241, -53, 0, 30619, 24912, 4930, 161, -65>>,
      <<0, 5718, 16634, 1459, 152, -65, 0, 17448, 30340, 17702, 241, -53, 0, 23777, 13557, 4805, 161, -65>>,
      <<0, 5753, 243, 10641, 133, -64, 0, 8421, 23880, 32767, 255, -53, 0, 2853, 1786, 10641, 133, -64>>,
      <<0, 5847, 21094, 28366, 185, -55, 0, 19242, 16621, 24498, 251, -53, 0, 9697, 23293, 29546, 186, -55>>,
      <<0, 6248, 5967, 28522, 133, -69, 0, 14115, 18368, 17912, 241, -53, 0, 4354, 25198, 28861, 141, -69>>,
      <<0, 6250, 5967, 28522, 133, -69, 0, 23618, 13622, 17305, 241, -53, 0, 2360, 13890, 29218, 141, -69>>,
      <<0, 6367, 4113, 25963, 220, -63, 0, 13271, 23969, 9511, 254, -53, 0, 32710, 16669, 9069, 222, -63>>,
      <<0, 6367, 4113, 25963, 220, -63, 0, 28162, 27804, 3948, 254, -53, 0, 271, 10057, 13935, 222, -63>>,
      <<0, 6981, 8593, 11331, 176, -118, 0, 25849, 32019, 17912, 241, -53, 0, 15334, 6954, 29417, 186, -118>>,
      <<0, 70, 19046, 10033, 208, -53, 0, 26285, 8754, 26554, 148, -53, 0, 14484, 14691, 10601, 243, -53>>,
      <<0, 7301, 6982, 31742, 147, -53, 0, 8875, 12588, 29652, 208, -53, 0, 2530, 2842, 25147, 157, -53>>,
      <<0, 7447, 9881, 31018, 213, -66, 0, 18960, 2630, 17383, 241, -53, 0, 11819, 19285, 25022, 226, -66>>,
      <<0, 7448, 9881, 31018, 213, -66, 0, 18773, 29360, 17834, 241, -53, 0, 13722, 13777, 24598, 226, -66>>,
      <<0, 7708, 31862, 1966, 208, -64, 0, 16767, 11123, 32767, 255, -53, 0, 31984, 4957, 1967, 208, -64>>,
      <<0, 7773, 17041, 5180, 145, -66, 0, 19848, 4323, 17338, 241, -53, 0, 17596, 1348, 28018, 153, -66>>,
      <<0, 7774, 17041, 5180, 145, -66, 0, 17885, 27667, 17879, 241, -53, 0, 13709, 32497, 27672, 153, -66>>,
      <<0, 8000, 7934, 12223, 208, -53, 0, 22774, 23027, 23487, 148, -53, 0, 3324, 17337, 14369, 243, -53>>,
      <<0, 8092, 13767, 26260, 238, -53, 0, 10041, 15013, 16322, 184, -54, 0, 22028, 21815, 28701, 153, -52>>,
      <<0, 8682, 16124, 2208, 191, -53, 0, 3769, 23363, 12442, 170, -53, 0, 31337, 27841, 22881, 215, -53>>,
      <<0, 8967, 30304, 1905, 241, -62, 0, 1078, 21011, 4196, 254, -53, 0, 5745, 15469, 27313, 242, -62>>,
      <<0, 8969, 30304, 1905, 241, -62, 0, 7587, 30763, 9263, 254, -53, 0, 19489, 11221, 22474, 242, -62>>,
      <<0, 9123, 18274, 5499, 229, -67, 0, 31590, 25766, 17892, 241, -53, 0, 14910, 12273, 28871, 242, -67>>,
      <<0, 9124, 18274, 5499, 229, -67, 0, 6143, 6224, 17325, 241, -53, 0, 7835, 4883, 29442, 242, -67>>,
      <<0, 9672, 29963, 13784, 208, -53, 0, 19807, 27512, 21298, 148, -53, 0, 16998, 12591, 17058, 243, -53>>,
      <<0, 9826, 22015, 10718, 208, -53, 0, 1717, 4202, 25595, 148, -53, 0, 9653, 4346, 11780, 243, -53>>,
      <<0, 9911, 22830, 31702, 215, -62, 0, 7174, 18020, 4132, 254, -53, 0, 7970, 15978, 18343, 217, -62>>,
      <<0, 9917, 22830, 31702, 215, -62, 0, 1492, 986, 9328, 254, -53, 0, 25428, 12087, 13898, 217, -62>>,
      <<1, 10416, 7508, 9703, 197, -61, 0, 26354, 549, 8633, 254, -53, 1, 4906, 8259, 21069, 198, -61>>,
      <<1, 10421, 7508, 9703, 197, -61, 0, 15080, 18456, 4827, 254, -53, 1, 8301, 19587, 24043, 198, -61>>,
      <<1, 10464, 315, 17546, 242, -61, 0, 14227, 22990, 5573, 254, -53, 1, 17675, 15171, 9190, 244, -61>>,
      <<1, 10466, 315, 17546, 242, -61, 0, 27207, 28783, 7886, 254, -53, 1, 1216, 30427, 6967, 244, -61>>,
      <<1, 10686, 11804, 1638, 156, -61, 0, 5953, 26050, 9030, 254, -53, 1, 11715, 32082, 3537, 157, -61>>,
      <<1, 10689, 11804, 1638, 156, -61, 0, 2712, 25724, 4429, 254, -53, 1, 30736, 11188, 6382, 157, -61>>,
      <<1, 10767, 21201, 27632, 129, -60, 0, 18823, 16503, 7321, 254, -53, 1, 25420, 21511, 24574, 130, -60>>,
      <<1, 10768, 21201, 27632, 129, -60, 0, 22610, 2502, 6139, 254, -53, 1, 183, 28572, 25182, 130, -60>>,
      <<1, 11843, 23768, 31280, 132, -67, 0, 19256, 10953, 17906, 241, -53, 1, 24002, 9051, 29828, 140, -67>>,
      <<1, 11862, 23768, 31280, 132, -67, 0, 18478, 21037, 17311, 241, -53, 1, 22987, 7414, 30175, 140, -67>>,
      <<1, 12043, 20632, 29518, 157, -65, 0, 27395, 17776, 17656, 241, -53, 1, 17788, 21738, 11616, 167, -65>>,
      <<1, 12044, 20632, 29518, 157, -65, 0, 10338, 14214, 17561, 241, -53, 1, 31473, 18414, 11682, 167, -65>>,
      <<1, 1242, 20094, 10262, 222, -65, 0, 6767, 31900, 9569, 254, -53, 1, 14553, 14427, 26422, 223, -65>>,
      <<1, 12566, 3982, 25703, 214, -61, 0, 1639, 23092, 8401, 254, -53, 1, 32644, 29160, 8405, 216, -61>>,
      <<1, 12568, 3982, 25703, 214, -61, 0, 7026, 28682, 5058, 254, -53, 1, 28499, 7784, 11250, 216, -61>>,
      <<1, 12973, 20838, 11036, 129, -65, 0, 14124, 21902, 17787, 241, -53, 1, 25597, 28897, 2557, 137, -65>>,
      <<1, 12974, 20838, 11036, 129, -65, 0, 23609, 10088, 17430, 241, -53, 1, 5203, 22834, 2760, 137, -65>>,
      <<1, 1362, 20094, 10262, 222, -65, 0, 1898, 19874, 3890, 254, -53, 1, 27992, 11391, 31424, 223, -65>>,
      <<1, 1530, 2904, 18420, 132, -60, 0, 413, 15352, 6581, 254, -53, 1, 6556, 27430, 16371, 133, -60>>,
      <<1, 1530, 2904, 18420, 132, -60, 0, 8252, 3654, 6879, 254, -53, 1, 14223, 17370, 16215, 133, -60>>,
      <<1, 15924, 3431, 279, 222, -64, 0, 24513, 9604, 9558, 254, -53, 1, 22350, 26591, 16381, 223, -64>>,
      <<1, 15951, 3431, 279, 222, -64, 0, 16920, 9401, 3902, 254, -53, 1, 22148, 10394, 21356, 223, -64>>,
      <<1, 16072, 2097, 21299, 159, -65, 0, 29776, 29415, 17624, 241, -53, 1, 14933, 28034, 6850, 169, -65>>,
      <<1, 16072, 2097, 21299, 159, -65, 0, 7958, 2575, 17593, 241, -53, 1, 22344, 4799, 6873, 169, -65>>,
      <<1, 16220, 10637, 30716, 187, -66, 0, 20940, 30160, 17854, 241, -53, 1, 8054, 2032, 6042, 199, -66>>,
      <<1, 16223, 10637, 30716, 187, -66, 0, 16794, 1830, 17363, 241, -53, 1, 3749, 22673, 6447, 199, -66>>,
      <<1, 18602, 9168, 24381, 132, -60, 0, 4333, 9503, 6730, 254, -53, 1, 26518, 28104, 22296, 133, -60>>,
      <<1, 18603, 9168, 24381, 132, -61, 0, 7554, 29589, 9192, 254, -53, 1, 18746, 14300, 21020, 133, -61>>,
      <<1, 18606, 9168, 24381, 132, -61, 0, 1111, 22185, 4267, 254, -53, 1, 24586, 16286, 23610, 133, -61>>,
      <<1, 19527, 15743, 7135, 201, -66, 0, 23062, 7601, 17845, 241, -53, 1, 20927, 10742, 8512, 213, -66>>,
      <<1, 19530, 15743, 7135, 201, -66, 0, 14672, 24389, 17372, 241, -53, 1, 11991, 16784, 8929, 213, -66>>,
      <<1, 19963, 19962, 30128, 229, -61, 0, 19035, 2630, 8152, 254, -53, 1, 4380, 27836, 16453, 231, -61>>,
      <<1, 19966, 19962, 30128, 229, -61, 0, 22398, 16375, 5308, 254, -53, 1, 3464, 29111, 19043, 231, -61>>,
      <<1, 20201, 344, 16194, 252, -61, 0, 24018, 154, 7609, 254, -53, 1, 513, 6637, 8147, 254, -61>>,
      <<1, 20202, 344, 16194, 252, -61, 0, 17415, 18851, 5851, 254, -53, 1, 12176, 3234, 9905, 254, -61>>,
      <<1, 20702, 22395, 2643, 164, -62, 0, 1055, 28974, 4025, 254, -53, 1, 31420, 10887, 9588, 165, -62>>,
      <<1, 20704, 22395, 2643, 164, -62, 0, 7610, 22800, 9434, 254, -53, 1, 5722, 16131, 6072, 165, -62>>,
      <<1, 20851, 3353, 13984, 137, -62, 0, 14546, 32043, 9476, 254, -53, 1, 462, 21939, 11510, 138, -62>>,
      <<1, 20857, 3353, 13984, 137, -62, 0, 26887, 19730, 3983, 254, -53, 1, 19843, 13863, 14501, 138, -62>>,
      <<1, 20954, 13387, 22510, 133, -68, 0, 25359, 10219, 17911, 241, -53, 1, 27486, 95, 22491, 141, -68>>,
      <<1, 20970, 13387, 22510, 133, -68, 0, 12374, 21771, 17306, 241, -53, 1, 29176, 23069, 22845, 141, -68>>,
      <<1, 22889, 7532, 18076, 236, -61, 0, 26349, 8144, 8021, 254, -53, 1, 13620, 3559, 6018, 238, -61>>,
      <<1, 22891, 7532, 18076, 236, -61, 0, 15084, 10861, 5439, 254, -53, 1, 5562, 21286, 8437, 238, -61>>,
      <<1, 23483, 12125, 28478, 159, -65, 0, 18867, 32379, 17608, 241, -53, 1, 13106, 6048, 14471, 169, -65>>,
      <<1, 23484, 12125, 28478, 159, -66, 0, 26288, 8203, 17872, 241, -53, 1, 19623, 17861, 14286, 169, -66>>,
      <<1, 23488, 12125, 28478, 159, -66, 0, 11445, 23787, 17345, 241, -53, 1, 4988, 29781, 14655, 169, -66>>,
      <<1, 24206, 27993, 552, 132, -60, 0, 32639, 17206, 7027, 254, -53, 1, 22484, 5347, 30913, 132, -60>>,
      <<1, 24206, 27993, 552, 132, -60, 0, 8794, 1799, 6433, 254, -53, 1, 11830, 2120, 31224, 132, -60>>,
      <<1, 24372, 19921, 4649, 174, -66, 0, 30757, 1359, 17354, 241, -53, 1, 22782, 12613, 18841, 184, -66>>,
      <<1, 24373, 19921, 4649, 174, -66, 0, 6976, 30631, 17863, 241, -53, 1, 4074, 24696, 18451, 184, -66>>,
      <<1, 24499, 29641, 2525, 167, -61, 0, 27307, 5476, 8940, 254, -53, 1, 12771, 22187, 6933, 168, -61>>,
      <<1, 24501, 29641, 2525, 167, -61, 0, 14126, 13529, 4520, 254, -53, 1, 2236, 1946, 9859, 168, -61>>,
      <<1, 26906, 26756, 21530, 222, -61, 0, 17518, 490, 8279, 254, -53, 1, 29768, 29788, 6107, 224, -61>>,
      <<1, 26908, 26756, 21530, 222, -61, 0, 23915, 18515, 5181, 254, -53, 1, 30682, 2269, 8840, 224, -61>>,
      <<1, 26940, 26996, 32548, 158, -65, 0, 10742, 25023, 17640, 241, -53, 1, 15453, 4512, 16801, 168, -65>>,
      <<1, 26940, 26996, 32548, 158, -65, 0, 26991, 6967, 17577, 241, -53, 1, 6185, 15576, 16845, 168, -65>>,
      <<1, 27568, 14820, 21175, 177, -61, 0, 15545, 3206, 4617, 254, -53, 1, 18527, 19916, 30975, 178, -61>>,
      <<1, 27569, 14820, 21175, 177, -61, 0, 25888, 15799, 8843, 254, -53, 1, 23549, 8417, 28001, 178, -61>>,
      <<1, 27709, 27165, 16667, 165, -67, 0, 3963, 20283, 17902, 241, -53, 1, 30701, 20469, 13512, 175, -67>>,
      <<1, 27716, 27165, 16667, 165, -67, 0, 1002, 11708, 17315, 241, -53, 1, 12269, 4234, 13939, 175, -67>>,
      <<1, 27882, 14319, 1562, 146, -65, 0, 7632, 11294, 17485, 241, -53, 1, 30201, 1936, 26052, 154, -65>>,
      <<1, 27884, 14319, 1562, 146, -65, 0, 30101, 20696, 17732, 241, -53, 1, 9847, 19064, 25893, 154, -65>>,
      <<1, 28684, 16805, 28000, 247, -61, 0, 2905, 11080, 7749, 254, -53, 1, 32016, 1612, 18761, 249, -61>>,
      <<1, 28688, 16805, 28000, 247, -61, 0, 5760, 7926, 5711, 254, -53, 1, 22931, 7437, 20762, 249, -61>>,
      <<1, 28958, 21522, 2368, 200, -68, 0, 31719, 7685, 17909, 241, -53, 1, 16505, 1410, 1443, 212, -68>>,
      <<1, 28976, 21522, 2368, 200, -68, 0, 6014, 24305, 17308, 241, -53, 1, 9770, 7590, 1970, 212, -68>>,
      <<1, 29031, 20478, 4127, 166, -63, 0, 23840, 28224, 9538, 254, -53, 1, 11358, 9204, 7941, 167, -63>>,
      <<1, 29035, 17990, 2917, 226, -66, 0, 18671, 30829, 17823, 241, -53, 1, 23929, 22452, 20320, 239, -66>>,
      <<1, 29037, 17990, 2917, 226, -66, 0, 19062, 1161, 17394, 241, -53, 1, 21, 6217, 20747, 239, -66>>,
      <<1, 29046, 20478, 4127, 166, -63, 0, 17594, 23549, 3921, 254, -53, 1, 2944, 1908, 11638, 167, -63>>,
      <<1, 29311, 29315, 7238, 128, -60, 0, 15798, 10394, 5994, 254, -53, 1, 21605, 13080, 4484, 129, -60>>,
      <<1, 29312, 29315, 7238, 128, -60, 0, 25636, 8611, 7466, 254, -53, 1, 3756, 23647, 3736, 129, -60>>,
      <<1, 29591, 11156, 14768, 138, -65, 0, 22358, 32199, 17760, 241, -53, 1, 10714, 20894, 24180, 146, -65>>,
      <<1, 29593, 11156, 14768, 138, -65, 0, 15375, 32559, 17456, 241, -53, 1, 662, 10470, 24365, 146, -65>>,
      <<1, 29608, 6463, 14562, 142, -65, 0, 29076, 32645, 17746, 241, -53, 1, 20448, 15384, 31816, 150, -65>>,
      <<1, 29610, 6463, 14562, 142, -65, 0, 8657, 32113, 17470, 241, -53, 1, 3006, 32578, 31988, 150, -65>>,
      <<1, 29639, 23978, 13817, 154, -65, 0, 806, 10158, 17530, 241, -53, 1, 27218, 23627, 21943, 163, -65>>,
      <<1, 29640, 23978, 13817, 154, -65, 0, 4159, 21833, 17687, 241, -53, 1, 26372, 3110, 21837, 163, -65>>,
      <<1, 29670, 18011, 3596, 131, -60, 0, 20509, 4063, 7175, 254, -53, 1, 27234, 30035, 903, 132, -60>>,
      <<1, 29670, 18011, 3596, 131, -60, 0, 20924, 14942, 6285, 254, -53, 1, 14598, 210, 1366, 132, -60>>,
      <<1, 30405, 14152, 8213, 149, -65, 0, 30630, 30410, 17717, 241, -53, 1, 11561, 29224, 6068, 158, -65>>,
      <<1, 30408, 14152, 8213, 149, -65, 0, 7103, 1580, 17500, 241, -53, 1, 23038, 19184, 6211, 158, -65>>,
      <<1, 31266, 18378, 2539, 134, -65, 0, 3905, 18102, 17774, 241, -53, 1, 25499, 10637, 3366, 142, -65>>,
      <<1, 31267, 18378, 2539, 134, -65, 0, 1060, 13889, 17443, 241, -53, 1, 16123, 4596, 3561, 142, -65>>,
      <<1, 31343, 7039, 19503, 144, -61, 0, 4998, 15162, 4345, 254, -53, 1, 15641, 8612, 21543, 145, -61>>,
      <<1, 31344, 7039, 19503, 144, -61, 0, 3668, 3844, 9115, 254, -53, 1, 5132, 2753, 18811, 145, -61>>,
      <<1, 31670, 22267, 13931, 146, -112, 0, 7695, 23248, 3886, 254, -53, 1, 28424, 16053, 16686, 147, -112>>,
      <<1, 31810, 24186, 23869, 187, -61, 0, 26011, 166, 8741, 254, -53, 1, 25553, 1602, 249, 189, -61>>,
      <<1, 31812, 24186, 23869, 187, -61, 0, 15422, 18839, 4719, 254, -53, 1, 5237, 25584, 3239, 189, -61>>,
      <<1, 4152, 12764, 9334, 190, -62, 0, 10716, 37, 9385, 254, -53, 1, 16741, 7536, 18580, 191, -62>>,
      <<1, 4158, 12764, 9334, 190, -62, 0, 30717, 18968, 4075, 254, -53, 1, 13729, 20819, 22582, 191, -62>>,
      <<1, 4418, 22925, 15834, 248, -66, 0, 17778, 22336, 17417, 241, -53, 1, 31839, 7350, 22415, 131, -65>>,
      <<1, 4422, 22925, 15834, 248, -66, 0, 19956, 9654, 17800, 241, -53, 1, 4828, 20714, 22206, 131, -65>>,
      <<1, 4886, 10588, 1613, 130, -66, 0, 12815, 22804, 17886, 241, -53, 1, 8236, 11121, 27243, 137, -66>>,
      <<1, 4890, 10588, 1613, 130, -66, 0, 24918, 9186, 17331, 241, -53, 1, 22467, 9634, 27560, 137, -66>>,
      <<1, 4934, 26334, 19957, 197, -67, 0, 29359, 28750, 17319, 241, -53, 1, 22322, 15773, 14713, 209, -67>>,
      <<1, 4937, 26334, 19957, 197, -67, 0, 8374, 3240, 17898, 241, -53, 1, 15705, 3120, 14212, 209, -67>>,
      <<1, 4955, 19716, 12306, 156, -65, 0, 8468, 6259, 17672, 241, -53, 1, 13921, 17900, 24169, 165, -65>>,
      <<1, 4957, 19716, 12306, 156, -65, 0, 29266, 25731, 17545, 241, -53, 1, 3125, 9299, 24256, 165, -65>>,
      <<1, 5041, 19878, 10584, 206, -61, 0, 16166, 25126, 4940, 254, -53, 1, 1251, 26326, 26985, 207, -61>>,
      <<1, 5044, 19878, 10584, 206, -61, 0, 25267, 26647, 8519, 254, -53, 1, 12590, 14133, 24060, 207, -61>>,
      <<1, 5507, 21384, 20046, 237, -66, 0, 20674, 12992, 17812, 241, -53, 1, 30772, 8656, 27291, 251, -66>>,
      <<1, 5513, 21384, 20046, 237, -66, 0, 17059, 18998, 17405, 241, -53, 1, 27564, 14164, 27715, 251, -66>>,
      <<1, 5717, 16634, 1459, 152, -65, 0, 17448, 30340, 17702, 241, -53, 1, 23776, 13557, 4805, 161, -65>>,
      <<1, 5718, 16634, 1459, 152, -65, 0, 20285, 1650, 17515, 241, -53, 1, 30620, 24912, 4930, 161, -65>>,
      <<1, 6227, 5967, 28522, 133, -69, 0, 14115, 18368, 17912, 241, -53, 1, 4332, 25198, 28861, 141, -69>>,
      <<1, 6299, 5967, 28522, 133, -69, 0, 23618, 13622, 17305, 241, -53, 1, 2412, 13890, 29218, 141, -69>>,
      <<1, 6358, 4113, 25963, 220, -63, 0, 13271, 23969, 9511, 254, -53, 1, 32701, 16669, 9069, 222, -63>>,
      <<1, 6388, 4113, 25963, 220, -63, 0, 28162, 27804, 3948, 254, -53, 1, 292, 10057, 13935, 222, -63>>,
      <<1, 6981, 8593, 11331, 176, -117, 0, 11884, 32739, 17304, 241, -53, 1, 11806, 22083, 29887, 186, -117>>,
      <<1, 7445, 9881, 31018, 213, -66, 0, 18960, 2630, 17383, 241, -53, 1, 11817, 19285, 25022, 226, -66>>,
      <<1, 7447, 9881, 31018, 213, -66, 0, 18773, 29360, 17834, 241, -53, 1, 13721, 13777, 24598, 226, -66>>,
      <<1, 7767, 17041, 5180, 145, -66, 0, 17885, 27667, 17879, 241, -53, 1, 13701, 32497, 27672, 153, -66>>,
      <<1, 7775, 17041, 5180, 145, -66, 0, 19848, 4323, 17338, 241, -53, 1, 17598, 1348, 28018, 153, -66>>,
      <<1, 8958, 30304, 1905, 241, -62, 0, 7587, 30763, 9263, 254, -53, 1, 19478, 11221, 22474, 242, -62>>,
      <<1, 8972, 30304, 1905, 241, -62, 0, 1078, 21011, 4196, 254, -53, 1, 5750, 15469, 27313, 242, -62>>,
      <<1, 9128, 18274, 5499, 229, -67, 0, 31590, 25766, 17892, 241, -53, 1, 14915, 12273, 28871, 242, -67>>,
      <<1, 9136, 18274, 5499, 229, -67, 0, 6143, 6224, 17325, 241, -53, 1, 7848, 4883, 29442, 242, -67>>,
      <<1, 9905, 22830, 31702, 215, -62, 0, 1492, 986, 9328, 254, -53, 1, 25416, 12087, 13898, 217, -62>>,
      <<1, 9911, 22830, 31702, 215, -62, 0, 7174, 18020, 4132, 254, -53, 1, 7970, 15978, 18343, 217, -62>> }

SinTable   == {<<Tabulated(t, 1), Tabulated(t, 7)>> : t \in SinValues}
CosTable   == {<<Tabulated(t, 1), Tabulated(t, 7)>> : t \in CosValues}
AsinTable  == {<<Tabulated(t, 1), Tabulated(t, 7)>> : t \in AsinValues}
Atan2Table == {<<Tabulated(t, 1), Tabulated(t, 7), Tabulated(t, 13)>> : t \in Atan2Values}

MathSin(x)  == (CHOOSE t \in SinTable : t[1] = x)[2]
MathCos(x)  == (CHOOSE t \in CosTable : t[1] = x)[2]
MathAsin(x) == (CHOOSE t \in AsinTable : t[1] = x)[2]
MathAtan2(y, x) == (CHOOSE t \in Atan2Table : t[1] = y /\ t[2] = x)[3]

(***************************************************************************)
(* calculateDestination and GeodesicCircle (src/App.tsx lines 350-373 and  *)
(* 445-458, src/components/MapView.tsx lines 30-53 and 117-130).  The loop *)
(* of the memo takes one step per iteration.                               *)
(***************************************************************************)
\* lines 352-353
rad(x) == Div(Mul(x, PI), WholeNumber(180))
deg(x) == Div(Mul(x, WholeNumber(180)), PI)

\* lines 360-363, lat2
DestinationLat(lat1, angularDistance, brng) ==
    MathAsin(Add(Mul(MathSin(lat1), MathCos(angularDistance)),
                 Mul(Mul(MathCos(lat1), MathSin(angularDistance)), MathCos(brng))))

\* lines 365-368, lng2
DestinationLng(lat1, lng1, angularDistance, brng, lat2) ==
    Add(lng1,
        MathAtan2(Mul(Mul(MathSin(brng), MathSin(angularDistance)), MathCos(lat1)),
                  Sub(MathCos(angularDistance), Mul(MathSin(lat1), MathSin(lat2)))))

\* line 370, lng2 brought into -pi..pi
Normalised(lng2) ==
    Sub(Rem(Add(lng2, Mul(WholeNumber(3), PI)), Mul(WholeNumber(2), PI)), PI)

\* lines 365-372, from lat2 on
DestinationFrom(lat1, lng1, angularDistance, brng, lat2) ==
    [lat |-> deg(lat2),
     lng |-> deg(Normalised(DestinationLng(lat1, lng1, angularDistance, brng, lat2)))]

\* lines 360-372, from the angles in radians
Destination(lat1, lng1, angularDistance, brng) ==
    DestinationFrom(lat1, lng1, angularDistance, brng,
                    DestinationLat(lat1, angularDistance, brng))

CalculateDestination(lat, lng, distanceMeters, bearingDegrees) ==
    Destination(rad(lat), rad(lng), Div(distanceMeters, WholeNumber(6371000)),
                rad(bearingDegrees))

\* const steps = 120, line 448
Segments == 120

\* the bearing of iteration i, line 450
Angle(i) == Div(Mul(WholeNumber(i), WholeNumber(360)), WholeNumber(Segments))

\* the circles drawn: around a center in Bangkok, and a wide one around a
\* center near the prime meridian
Circles ==
    { [center |-> [lat |-> Lit(1375, 100), lng |-> Lit(10050, 100)], radius |-> WholeNumber(1000)],
      [center |-> [lat |-> Lit(480, 100),  lng |-> Lit(82, 100)],    radius |-> WholeNumber(25900)] }

RingIdle ==
    /\ circle = [center |-> [lat |-> Lit(1375, 100), lng |-> Lit(10050, 100)],
                 radius |-> WholeNumber(1000)]
    /\ pts = <<>>
    /\ positions = None

RingBegins ==
    /\ circle \in Circles
    /\ pts = <<>>
    /\ positions = None

\* one iteration of the loop, lines 449-453, with i the number of points
\* pushed so far
RingPoint ==
    /\ positions = None
    /\ Len(pts) <= Segments
    /\ pts' = Append(pts, CalculateDestination(circle.center.lat, circle.center.lng,
                                               circle.radius, Angle(Len(pts))))
    /\ UNCHANGED <<circle, positions>>
    /\ UNCHANGED <<places, points, span, measured>>
    /\ UNCHANGED <<searchVars, analyzeVars, routeVars, appVars>>

\* the loop has ended: line 454 returns the points, line 457 hands them to
\* the Polygon
RingReturns ==
    /\ positions = None
    /\ Len(pts) > Segments
    /\ positions' = Some(pts)
    /\ UNCHANGED <<circle, pts>>
    /\ UNCHANGED <<places, points, span, measured>>
    /\ UNCHANGED <<searchVars, analyzeVars, routeVars, appVars>>

RingNext == RingPoint \/ RingReturns

(***************************************************************************)
(* getDistance (src/services/geminiService.ts lines 56-73), called by      *)
(* formatPlace with the center of the analysis and a place.                *)
(***************************************************************************)
\* lines 66-70, a: the latitudes are in degrees, dLat and dLon in radians
Haversine(lat1, lat2, dLat, dLon) ==
    Add(Mul(MathSin(Div(dLat, WholeNumber(2))), MathSin(Div(dLat, WholeNumber(2)))),
        Mul(Mul(Mul(MathCos(rad(lat1)), MathCos(rad(lat2))),
                MathSin(Div(dLon, WholeNumber(2)))),
            MathSin(Div(dLon, WholeNumber(2)))))

\* lines 71-72, R * c
Kilometres(a) ==
    Mul(WholeNumber(6371),
        Mul(WholeNumber(2), MathAtan2(MathSqrt(a), MathSqrt(Sub(WholeNumber(1), a)))))

\* getDistance with the latitude of the first point in both cosines
GetDistanceOneLatitude(lat1, lon1, lat2, lon2) ==
    Kilometres(Haversine(lat1, lat1, rad(Sub(lat2, lat1)), rad(Sub(lon2, lon1))))

GetDistance(lat1, lon1, lat2, lon2) ==
    Kilometres(Haversine(lat1, lat2, rad(Sub(lat2, lat1)), rad(Sub(lon2, lon1))))

\* the centers and places distances are taken between: in Bangkok, south of
\* the equator, west of the prime meridian
DistancePlaces ==
    { [lat |-> Lit(1375, 100),     lng |-> Lit(10050, 100)],
      [lat |-> Lit(1372, 100),     lng |-> Lit(10053, 100)],
      [lat |-> Lit(137563, 10000), lng |-> Lit(1005018, 10000)],
      [lat |-> Lit(1375, 100),     lng |-> Lit(10053, 100)],
      [lat |-> Lit(1376, 100),     lng |-> Lit(10049, 100)],
      [lat |-> NegLit(621, 100),   lng |-> Lit(10685, 100)],
      [lat |-> Lit(5148, 100),     lng |-> NegLit(15, 10000)],
      [lat |-> Lit(480, 100),      lng |-> Lit(82, 100)] }

DistanceIdle ==
    /\ span = [from |-> [lat |-> Lit(1375, 100), lng |-> Lit(10050, 100)],
               to   |-> [lat |-> Lit(1375, 100), lng |-> Lit(10050, 100)]]
    /\ measured = None

DistanceBegins ==
    /\ span \in [from : DistancePlaces, to : DistancePlaces]
    /\ measured = None

\* line 77: getDistance(location.lat, location.lng, e.lat, e.lon)
MeasureDistance ==
    /\ measured = None
    /\ measured' = Some(GetDistance(span.from.lat, span.from.lng, span.to.lat, span.to.lng))
    /\ UNCHANGED span
    /\ UNCHANGED <<places, points, circle, pts, positions>>
    /\ UNCHANGED <<searchVars, analyzeVars, routeVars, appVars>>

DistanceNext == MeasureDistance

\* nothing is drawn or measured
MapIdle == HeatNone /\ RingIdle /\ DistanceIdle

(***************************************************************************)
(* The specifications: one call of searchLocation; one call of             *)
(* analyzeLocation against either variant of the service; one call of      *)
(* suggestRoute against either variant; analyzeLocation and suggestRoute   *)
(* called repeatedly; the application driven by its user; the heat layer   *)
(* drawn for an analysis; the ring drawn around a center; a distance       *)
(* measured.                                                               *)
(***************************************************************************)
InitSearch == SearchIdle /\ AnalyzeIdle("overpass") /\ RouteIdle("osrm") /\ AppIdle /\ MapIdle
SpecSearch == InitSearch /\ [][SearchNext]_vars

InitAnalyze ==
    SearchIdle /\ (\E b \in Backends : AnalyzeIdle(b)) /\ RouteIdle("osrm") /\ AppIdle /\ MapIdle
SpecAnalyze == InitAnalyze /\ [][AnalyzeNext]_vars

InitRoute ==
    SearchIdle /\ AnalyzeIdle("overpass") /\ (\E p \in Planners : RouteIdle(p)) /\ AppIdle /\ MapIdle
SpecRoute == InitRoute /\ [][RouteNext]_vars

\* apiService.ts and geminiService.ts are linked together, or part_000 is
InitCalls ==
    /\ SearchIdle
    /\ \/ AnalyzeIdle("overpass") /\ RouteIdle("osrm")
       \/ AnalyzeIdle("gemini") /\ RouteIdle("gemini")
    /\ AppIdle /\ MapIdle
SpecCalls == InitCalls /\ [][CallsNext]_vars

\* the services and the application at rest
AtRest == SearchIdle /\ AnalyzeIdle("overpass") /\ RouteIdle("osrm") /\ AppIdle

InitHeat == AtRest /\ HeatIdle /\ RingIdle /\ DistanceIdle
SpecHeat == InitHeat /\ [][HeatNext]_vars

InitRing == AtRest /\ HeatNone /\ RingBegins /\ DistanceIdle
SpecRing == InitRing /\ [][RingNext]_vars

InitDistance == AtRest /\ HeatNone /\ RingIdle /\ DistanceBegins
SpecDistance == InitDistance /\ [][DistanceNext]_vars

\* every request the application has in flight is answered or fails
InitApp == SearchIdle /\ AnalyzeIdle("overpass") /\ RouteIdle("osrm") /\ AppIdle /\ MapIdle
SpecApp ==
    InitApp /\ [][AppNext]_vars /\ WF_vars(AnalyzeSettles) /\ WF_vars(RouteSettles)

(***************************************************************************)
(* What a provider answered, as the specification classifies it: a failure *)
(* (the request rejected, the body unparseable, of an unexpected shape or  *)
(* its top candidate without the coordinate fields), an empty result list, *)
(* or a result.                                                            *)
(***************************************************************************)
ResultList(a) ==
    IF a.how # "body" THEN None
    ELSE IF a.data[1].null THEN None
    ELSE CASE a.from = "ArcGIS" -> a.data[1].candidates
           [] a.from = "Photon" -> a.data[1].features
           [] a.from = "Nominatim" -> a.data[1].array

FieldNumber(o) == IF o = None THEN Undefined ELSE ParseFloat(o[1])

\* the coordinate fields of the top candidate of a non-empty result list
TopFields(a) ==
    LET top == ResultList(a)[1][1]
    IN  CASE a.from = "ArcGIS" ->
               IF top.location = None THEN None
               ELSE Some([lat |-> top.location[1].y, lng |-> top.location[1].x])
          [] a.from = "Photon" ->
               IF top.geometry = None THEN None
               ELSE IF top.geometry[1].coordinates = None THEN None
               ELSE Some([lat |-> Elem(top.geometry[1].coordinates[1], 1),
                          lng |-> Elem(top.geometry[1].coordinates[1], 0)])
          [] a.from = "Nominatim" ->
               Some([lat |-> FieldNumber(top.lat), lng |-> FieldNumber(top.lon)])

Class(a) ==
    IF ResultList(a) = None THEN "failed"
    ELSE IF ResultList(a)[1] = <<>> THEN "empty"
    ELSE IF TopFields(a) = None THEN "failed"
    ELSE IF TopFields(a)[1].lat = Undefined \/ TopFields(a)[1].lng = Undefined THEN "failed"
    ELSE "result"

ValidLat(x) == IsNumber(x) /\ x.v >= -90 * Scale /\ x.v <= 90 * Scale
ValidLng(x) == IsNumber(x) /\ x.v >= -180 * Scale /\ x.v <= 180 * Scale

\* the two numbers written in a typed query are a valid Location
WrittenInRange(t) ==
    /\ ValidLat(Num(WrittenValue(t.lat)))
    /\ ValidLng(Num(WrittenValue(t.lng)))

\* both numbers are written with a fraction, lat with at most two and lng
\* with at most three integer digits
WrittenAsDecimals(t) ==
    /\ t.lat.frac # <<>> /\ Len(t.lat.int) <= 2
    /\ t.lng.frac # <<>> /\ Len(t.lng.int) <= 3

\* the call returned the written pair from direct parsing, with no request
ReturnedWritten(t) ==
    /\ result = Location(Num(WrittenValue(t.lat)), Num(WrittenValue(t.lng)), "direct")
    /\ requests = <<>>

(***************************************************************************)
(* Claims about searchLocation (checked under SpecSearch).                 *)
(***************************************************************************)

\* C1 (as claimed; violated): every Location searchLocation returns, from
\* direct parsing or from a provider, has a number in [-90,90] as lat and a
\* number in [-180,180] as lng.
C1_ReturnedLocationValid ==
    result.kind = "location" => ValidLat(result.lat) /\ ValidLng(result.lng)

\* C2 (as claimed; violated): a query whose written lat/lng pair is out of
\* range is never answered from direct parsing: the provider chain is entered.
C2_OutOfRangeFallsThrough ==
    (pc # "idle" /\ typed # None /\ ~WrittenInRange(typed[1]))
        => (result.via # "direct" /\ requests # <<>>)

C4_FirstResultWins ==
    /\ \A i \in 1..Len(requests) : i <= Len(Chain) /\ requests[i].to = Chain[i]
    /\ \A i \in 1..Len(got) :
         Class(got[i]) = "result" =>
            /\ Len(requests) = i
            /\ result = Location(TopFields(got[i])[1].lat, TopFields(got[i])[1].lng,
                                 got[i].from)
    /\ (result.kind = "location" /\ result.via # "direct") =>
            \E i \in 1..Len(got) : got[i].from = result.via /\ Class(got[i]) = "result"

\* C5 (as claimed; violated): a provider that failed or answered with an
\* empty list never supplies the result, and the chain goes on after it: to
\* the next provider, or after the last one to the NotFound failure.
C5_FailureProceeds ==
    \A i \in 1..Len(got) :
        Class(got[i]) # "result" =>
            /\ result.via # got[i].from
            /\ IF i < Len(Chain)
               THEN Len(requests) > i /\ requests[i + 1].to = Chain[i + 1]
               ELSE result = Failure(NotFoundMessage)

\* C6 (as claimed; violated): the call fails, with the NotFound error and no
\* other, exactly when direct parsing did not succeed and each of the three
\* providers failed or answered with an empty list.
C6_NotFoundIff ==
    pc = "done" =>
        /\ result.kind = "error" => result = Failure(NotFoundMessage)
        /\ result.kind = "error" <=>
              /\ ~DirectParse(Trim(query)).ok
              /\ Len(got) = Len(Chain)
              /\ \A i \in 1..Len(got) : Class(got[i]) # "result"

\* C7: one call issues at most three requests, no provider is requested
\* twice, and at most one request is in flight at any time: the one issued
\* last; none is left in flight when the call has settled.
C7_SequentialRequests ==
    /\ Len(requests) <= 3
    /\ \A i, j \in 1..Len(requests) : requests[i].to = requests[j].to => i = j
    /\ Cardinality(inflight) <= 1
    /\ inflight # {} => (requests # <<>> /\ inflight = {requests[Len(requests)].to})
    /\ pc \in {"fetch", "json"} <=> inflight # {}

\* C7 witness: a call has gone through all three providers, each of which
\* failed in a different way.
C7_Witness ==
    /\ pc = "done" /\ Len(requests) = 3 /\ Len(got) = 3
    /\ got[1].how = "fetch rejected" /\ got[2].how = "body unparseable"
    /\ got[3].how = "body"

(***************************************************************************)
(* Claims about analyzeLocation (checked under SpecAnalyze).               *)
(***************************************************************************)
\* the features of the Overpass response the result was built from
Features == IF response = None THEN <<>>
            ELSE IF response[1].null \/ response[1].elements = None THEN <<>>
            ELSE response[1].elements[1]

\* the places at which the feature with this id occurs in the result
Occurrences(value, id) ==
    { <<c, i>> \in (1..Len(Categories)) \X (1..(MaxElems + 1)) :
        i <= Len(value[Categories[c]]) /\ value[Categories[c]][i].id = id }

\* the specification's table of predicates, by category
Satisfies(t, c) ==
    CASE c = "residential" -> IsResidential(t)
      [] c = "convenience" -> IsConvenience(t)
      [] c = "shopping" -> IsShopping(t)
      [] c = "food" -> IsFood(t)
      [] c = "transport" -> IsTransport(t)
      [] c = "recreation" -> IsRecreation(t)
      [] c = "public_service" -> IsPublicService(t)

\* the first category, in the order of Categories, whose predicate the
\* feature's tags satisfy; "none" without a tag map or a match
FirstCategory(e) ==
    IF e.tags = None THEN "none"
    ELSE LET hits == {c \in 1..Len(Categories) : Satisfies(e.tags[1], Categories[c])}
         IN  IF hits = {} THEN "none" ELSE Categories[SetMin(hits)]

\* the number of categories whose predicate the feature's tags satisfy
Matches(e) ==
    IF e.tags = None THEN 0
    ELSE Cardinality({c \in 1..Len(Categories) : Satisfies(e.tags[1], Categories[c])})

\* C8: in the result of the Overpass-backed analyzeLocation every feature
\* of the response occurs in at most one place: in at most one of the seven
\* sequences and at most once in it.
C8_CategoriesExclusive ==
    (backend = "overpass" /\ analysis.kind = "result") =>
        \A n \in 1..Len(Features) :
            Cardinality(Occurrences(analysis.value, Features[n].id)) <= 1

\* C8 witness: a result holds, once, a feature that satisfies the predicates
\* of two categories, in a response of several such features.
C8_Witness ==
    /\ backend = "overpass" /\ analysis.kind = "result" /\ Len(Features) >= 3
    /\ \E n \in 1..Len(Features) :
         /\ Matches(Features[n]) >= 2
         /\ Cardinality(Occurrences(analysis.value, Features[n].id)) = 1

\* C9: a feature occurs in a category sequence only if that category is the
\* first, in the order residential, convenience, shopping, food, transport,
\* recreation, public_service, whose predicate its tags satisfy; a feature
\* that satisfies none, or has no tag map, occurs in none; and while no more
\* than 10 features fall into a category, each of them occurs in it.
C9_FirstMatchWins ==
    (backend = "overpass" /\ analysis.kind = "result") =>
        \A n \in 1..Len(Features) :
            LET e == Features[n]
                first == FirstCategory(e)
            IN  /\ \A o \in Occurrences(analysis.value, e.id) : Categories[o[1]] = first
                /\ first = "none" => Occurrences(analysis.value, e.id) = {}
                /\ (/\ first # "none"
                    /\ Cardinality({m \in 1..Len(Features) :
                                      FirstCategory(Features[m]) = first}) <= 10)
                      => Occurrences(analysis.value, e.id) # {}

\* C9 witness: a supermarket whose name contains "Lotus" (shopping and
\* convenience both match) has been placed in convenience.
C9_Witness ==
    /\ backend = "overpass" /\ analysis.kind = "result" /\ Len(Features) = 1
    /\ Features[1].tags # None
    /\ IsShopping(Features[1].tags[1]) /\ IsConvenience(Features[1].tags[1])
    /\ Len(analysis.value.convenience) = 1

\* C10 (as claimed; violated): each of the seven category sequences of a
\* returned AnalysisResult has at most 10 entries, with either backend.
C10_AtMostTen ==
    analysis.kind = "result" =>
        \A c \in 1..Len(Categories) : Len(analysis.value[Categories[c]]) <= 10

\* the features of the response whose first matching category is c, in the
\* order of the response
OfCategory(c) == SelectSeq(Features, LAMBDA e : FirstCategory(e) = c)

\* the first 10 (or fewer) of them, as place items
FirstTen(c) ==
    LET all == OfCategory(c)
        n == IF Len(all) < 10 THEN Len(all) ELSE 10
    IN  [i \in 1..n |-> FormatPlace(all[i])]

\* C11: each category sequence returned by the Overpass-backed
\* analyzeLocation is exactly the first 10 (or fewer) features of that
\* category, in the order in which they appear in the response: nothing is
\* re-sorted, and of more than 10 the later ones are dropped.
C11_FirstTenInOrder ==
    (backend = "overpass" /\ analysis.kind = "result") =>
        \A c \in 1..Len(Categories) :
            analysis.value[Categories[c]] = FirstTen(Categories[c])

\* C11 witness: a response with more than 10 features of one category and
\* some of another in between gave a result whose sequence of that category
\* has 10 entries.
C11_Witness ==
    /\ backend = "overpass" /\ analysis.kind = "result"
    /\ \E c \in 1..Len(Categories), d \in 1..Len(Categories) :
         /\ c # d
         /\ Len(OfCategory(Categories[c])) > 10
         /\ Len(OfCategory(Categories[d])) > 0
         /\ Len(analysis.value[Categories[c]]) = 10

(***************************************************************************)
(* Claims about suggestRoute (checked under SpecRoute).                    *)
(***************************************************************************)
\* the OSRM-backed call returned a list of options
OsrmReturned == planner = "osrm" /\ rpc = "done" /\ routes.kind = "result"

\* the route of the response the returned option was built from, and its
\* steps
FirstRoute == rdata[1].routes[1][1]
FirstSteps == FirstRoute.legs[1][1].steps[1]

AllDigits(text) == text # <<>> /\ \A i \in 1..Len(text) : IsDigit(text[i])

EndsWith(text, suffix) ==
    Len(text) >= Len(suffix)
    /\ SubSeq(text, Len(text) - Len(suffix) + 1, Len(text)) = suffix

\* "<digits> m.": integer meters
IsMeters(text) ==
    EndsWith(text, Meters) /\ AllDigits(SubSeq(text, 1, Len(text) - Len(Meters)))

\* "<digits>.<digit> km.": kilometers with one decimal place
IsKilometers(text) ==
    /\ EndsWith(text, Kilometers)
    /\ LET number == SubSeq(text, 1, Len(text) - Len(Kilometers))
       IN  /\ Len(number) >= 3
           /\ AllDigits(SubSeq(number, 1, Len(number) - 2))
           /\ number[Len(number) - 1] = "."
           /\ IsDigit(number[Len(number)])

\* C12 (as claimed; violated): for every distance d in meters the step
\* formatter of suggestRoute and the formatter of formatPlace (which takes
\* the distance in kilometers) give the same string, integer meters for
\* d < 1000 and kilometers with one decimal place for d >= 1000.
C12_SameDistanceString ==
    OsrmReturned =>
        \A i \in 1..Len(FirstSteps) :
            FirstSteps[i].distance # None =>
                LET tenths == FirstSteps[i].distance[1]
                    shown == routes.value[1].steps[i].distance
                IN  /\ shown = DistStr(DivBy(DoubleOf(tenths, 10), 1000))
                    /\ tenths < 10000 => IsMeters(shown)
                    /\ tenths >= 10000 => IsKilometers(shown)

\* C13 (as claimed; violated): the totalDistance of the returned option
\* follows the shared rule: integer meters for a route shorter than 1000 m,
\* kilometers with one decimal place from 1000 m on.
C13_TotalDistanceRule ==
    (OsrmReturned /\ FirstRoute.distance # None) =>
        LET tenths == FirstRoute.distance[1]
            shown == routes.value[1].totalDistance
        IN  /\ tenths < 10000 => IsMeters(shown)
            /\ tenths >= 10000 => IsKilometers(shown)

\* ceil(35 + 6 * km) of a distance of t tenths of a meter, in integers
ExactCost(tenths) == (350000 + 6 * tenths + 9999) \div 10000

\* C14: the total cost of the returned option is ceil(35 + 6 * km), km the
\* route's distance in meters divided by 1000: 95 for 10 km, never below 35.
C14_CostFormula ==
    (OsrmReturned /\ FirstRoute.distance # None) =>
        LET tenths == FirstRoute.distance[1]
        IN  /\ routes.value[1].totalCost = <<"~">> \o NatToStr(ExactCost(tenths)) \o Baht
            /\ ExactCost(tenths) >= 35
            /\ tenths = 100000 => ExactCost(tenths) = 95

\* C14 witness: a route of 10 km was returned with a cost of 95.
C14_Witness ==
    /\ OsrmReturned /\ FirstRoute.distance = Some(100000)
    /\ routes.value[1].totalCost = <<"~", "9", "5">> \o Baht

\* ceil(seconds / 60) of a duration of t tenths of a second, in integers
ExactMinutes(tenths) == (tenths + 599) \div 600

\* C15: every step's duration and the total duration of the returned option
\* is ceil(seconds / 60) minutes: 1 for 60 s, 2 for 61 s, 0 for 0 s.
C15_MinutesRoundedUp ==
    OsrmReturned =>
        /\ FirstRoute.duration # None =>
             routes.value[1].totalDuration
               = NatToStr(ExactMinutes(FirstRoute.duration[1])) \o Minutes
        /\ \A i \in 1..Len(FirstSteps) :
             FirstSteps[i].duration # None =>
                routes.value[1].steps[i].duration
                  = NatToStr(ExactMinutes(FirstSteps[i].duration[1])) \o Minutes
        /\ ExactMinutes(600) = 1 /\ ExactMinutes(610) = 2 /\ ExactMinutes(0) = 0

\* C15 witness: a route of 61 s was returned with a total of 2 minutes and a
\* step of 0 s with 0 minutes.
C15_Witness ==
    /\ OsrmReturned /\ FirstRoute.duration = Some(610)
    /\ routes.value[1].totalDuration = <<"2">> \o Minutes
    /\ \E i \in 1..Len(FirstSteps) :
         /\ FirstSteps[i].duration = Some(0)
         /\ routes.value[1].steps[i].duration = <<"0">> \o Minutes

\* C16: the coordinates of the returned option have the length and order of
\* the route's geometry, each pair (lng, lat) turned into (lat, lng).
C16_CoordinatesSwapped ==
    OsrmReturned =>
        LET in == FirstRoute.geometry[1].coordinates[1]
            out == routes.value[1].coordinates
        IN  /\ out # None
            /\ Len(out[1]) = Len(in)
            /\ \A i \in 1..Len(in) : out[1][i] = <<in[i][2], in[i][1]>>

\* C16 witness: a geometry of MaxCoords points, not all the same, was
\* returned.
C16_Witness ==
    /\ OsrmReturned
    /\ Len(FirstRoute.geometry[1].coordinates[1]) = MaxCoords
    /\ FirstRoute.geometry[1].coordinates[1][1] # FirstRoute.geometry[1].coordinates[1][2]
    /\ Len(routes.value[1].coordinates[1]) = MaxCoords

\* the options of a list marked recommended
Recommended(list) == { i \in 1..Len(list) : list[i].recommended = Some(TRUE) }

\* C17 (as claimed; violated): in every returned list at most one option is
\* recommended; the OSRM-backed call returns exactly one option, recommended.
C17_AtMostOneRecommended ==
    (rpc = "done" /\ routes.kind = "result") =>
        /\ Cardinality(Recommended(routes.value)) <= 1
        /\ planner = "osrm" =>
             Len(routes.value) = 1 /\ Recommended(routes.value) = {1}

\* the body has every field suggestRoute reads on the way to its steps and
\* its geometry, and every step has a maneuver
Complete(data) ==
    /\ ~data.null /\ data.routes # None /\ data.routes[1] # <<>>
    /\ LET route == data.routes[1][1]
       IN  /\ route.legs # None /\ route.legs[1] # <<>>
           /\ route.legs[1][1].steps # None
           /\ \A i \in 1..Len(route.legs[1][1].steps[1]) :
                route.legs[1][1].steps[1][i].maneuver # None
           /\ route.geometry # None /\ route.geometry[1].coordinates # None

UnknownType(step) == Interpolated(step.maneuver[1].type) \notin KnownTypes

\* the generic template "{type} {direction} {road}": the road is the name,
\* introduced by its prefix, unless the name is empty or the placeholder
\* "road"
Generic(step) ==
    Text(<<Interpolated(step.maneuver[1].type), " ",
           TranslateDirection(step.maneuver[1].modifier), " ">>
         \o (IF TruthyString(step.name) /\ step.name[1] # "road"
             THEN <<"khao su", " ", step.name[1]>> ELSE <<>>))

\* C18: a step whose maneuver type is none of the known ones, with any
\* modifier and any road name, gets a non-empty instruction built from the
\* generic template, and no maneuver type, modifier or name makes
\* suggestRoute fail: a complete response is returned as a route.
C18_UnknownTypeFallsBack ==
    (planner = "osrm" /\ rpc = "done" /\ rdata # None) =>
        /\ Complete(rdata[1]) => routes.kind = "result"
        /\ routes.kind = "result" =>
             \A i \in 1..Len(FirstSteps) :
                UnknownType(FirstSteps[i]) =>
                    /\ routes.value[1].steps[i].instruction # <<>>
                    /\ routes.value[1].steps[i].instruction = Generic(FirstSteps[i])

\* C18 witness: a route of three steps was returned whose second step is a
\* "custom_maneuver" without modifier on a named road.
C18_Witness ==
    /\ OsrmReturned /\ Len(FirstSteps) = 3
    /\ FirstSteps[2].maneuver[1].type = Some("custom_maneuver")
    /\ FirstSteps[2].maneuver[1].modifier = None
    /\ routes.value[1].steps[2].instruction
         = <<"custom_maneuver", " ", " ", "khao su", " ", "Sukhumvit">>

\* the body has the shape of an OSRM route response: Complete, with the
\* numbers and strings of the route and of every step present
ExpectedShape(data) ==
    /\ Complete(data)
    /\ LET route == data.routes[1][1]
           steps == route.legs[1][1].steps[1]
       IN  /\ route.distance # None /\ route.duration # None
           /\ \A i \in 1..Len(steps) :
                /\ steps[i].maneuver[1].type # None /\ steps[i].name # None
                /\ steps[i].distance # None /\ steps[i].duration # None

\* C19 (as claimed; violated): suggestRoute either returns a route built
\* from a response of the expected shape or rejects with the one fixed
\* error; a response of an unexpected shape is never turned into a result.
C19_NoPartialRecovery ==
    (planner = "osrm" /\ rpc = "done") =>
        /\ routes.kind = "error" => routes = RFailure(RoutingFailedMessage)
        /\ routes.kind = "result" => rdata # None /\ ExpectedShape(rdata[1])

(***************************************************************************)
(* Claims about repeated calls (checked under SpecCalls).                  *)
(***************************************************************************)
AnalyzeStarts == apc = "idle" /\ apc' = "fetch"
RouteStarts   == rpc = "idle" /\ rpc' = "fetch"

\* C20: each invocation of analyzeLocation and of suggestRoute issues
\* exactly one outbound request: the step that starts an invocation sends
\* one request, its own, and no other step of the invocation, whether it
\* ends in a result or in a failure, sends any.
C20_OneRequestPerCall ==
    [][ /\ AnalyzeStarts =>
             /\ Len(sent') = Len(sent) + 1
             /\ SubSeq(sent', 1, Len(sent)) = sent
             /\ sent'[Len(sent')] = [to |-> backend, lat |-> args'.location.lat,
                                     lng |-> args'.location.lng,
                                     around |-> args'.radiusMeters]
        /\ ~AnalyzeStarts => sent' = sent
        /\ RouteStarts =>
             /\ Len(rsent') = Len(rsent) + 1
             /\ SubSeq(rsent', 1, Len(rsent)) = rsent
             /\ rsent'[Len(rsent')] = [to |-> planner, origin |-> trip'.origin,
                                       destination |-> trip'.destination]
        /\ ~RouteStarts => rsent' = rsent ]_vars

\* C20 witness: two identical invocations of each service have settled, the
\* second analyzeLocation with a result and the second suggestRoute with a
\* failure, and each service has sent two requests.
C20_Witness ==
    /\ apc = "done" /\ analysis.kind = "result"
    /\ Len(sent) = 2 /\ sent[1] = sent[2]
    /\ rpc = "done" /\ routes.kind = "error"
    /\ Len(rsent) = 2 /\ rsent[1] = rsent[2]

(***************************************************************************)
(* Claims about the application.                                           *)
(***************************************************************************)
\* the place an analysis was computed for
AnalysedAt(location) == <<"around", location.lat, location.lng>>

\* C21: an analyze call in flight is not cancelled by a change of the center
\* or by a second analyze: it leaves the pending operations only when its
\* response arrives, and the response is then stored as the current analysis
\* with status SUCCESS (or status becomes ERROR), whether or not the call's
\* center is still the current one.
C21_StaleResponseStored ==
    [][\A o \in PendingOf({"analyze"}) :
         Copies(pending', o) < Copies(pending, o) =>
            \/ app'.status = "ERROR"
            \/ /\ app'.status = "SUCCESS"
               /\ app'.analysis # None
               /\ app'.analysis[1].locationName = AnalysedAt(o.location)]_vars

C21_Witness ==
    /\ app.status = "SUCCESS" /\ app.analysis # None
    /\ app.analysis[1].locationName # AnalysedAt(app.center)
    /\ app.viewMode = "markers" /\ app.destination = None
    /\ PendingOf({"analyze"}) # {}

\* a Location: lat in [-90, 90] and lng in [-180, 180]
ValidLocation(l) ==
    /\ IsNumber(l.lat) /\ l.lat.v >= -90 * Scale /\ l.lat.v <= 90 * Scale
    /\ IsNumber(l.lng) /\ l.lng.v >= -180 * Scale /\ l.lng.v <= 180 * Scale

\* C22 (as claimed; violated): after any sequence of user actions the center
\* and, when set, the destination are valid Locations.
C22_ValidLocations ==
    /\ ValidLocation(app.center)
    /\ app.destination # None => ValidLocation(app.destination[1])

(***************************************************************************)
(* C26.  handleLocationUpdate with a new center resets routes and          *)
(* selectedRoute; outside route mode it also resets analysis and puts      *)
(* status to IDLE, in route mode it leaves analysis and status as they     *)
(* are.  With a destination it sets destination and resets routes and      *)
(* selectedRoute, leaving center, analysis and status as they are.  Only   *)
(* handleLocationUpdate calls setCenter and setDestination, so a step that *)
(* changes center or destination is one of its calls.                      *)
(***************************************************************************)
C26_LocationUpdateFrame ==
    [][/\ app'.center # app.center =>
            /\ app'.routes = None /\ app'.selectedRoute = None
            /\ app'.destination = app.destination
            /\ IF app.viewMode # "route"
               THEN app'.analysis = None /\ app'.status = "IDLE"
               ELSE app'.analysis = app.analysis /\ app'.status = app.status
       /\ app'.destination # app.destination =>
            /\ app'.destination # None
            /\ app'.routes = None /\ app'.selectedRoute = None
            /\ app'.center = app.center
            /\ app'.analysis = app.analysis /\ app'.status = app.status]_vars

(***************************************************************************)
(* C27.  In every state of the App, if selectedRoute is not null then      *)
(* routes is not null and selectedRoute is one of its options.             *)
(***************************************************************************)
C27_SelectedAmongRoutes ==
    app.selectedRoute # None =>
        /\ app.routes # None
        /\ \E n \in 1..Len(app.routes[1]) : app.routes[1][n] = app.selectedRoute[1]

\* C27: the first route of a response is selected while another routing
\* request is still in flight
C27_Witness ==
    /\ app.selectedRoute # None
    /\ app.viewMode = "route"
    /\ app.status = "SUCCESS"
    /\ PendingOf({"route"}) # {}

\* how many analysis and routing requests are in flight
Requests == BagCardinality([o \in InFlight |-> pending[o]])

(***************************************************************************)
(* C28.  At any time at most one analysis or routing request started from  *)
(* the App is in flight.                                                   *)
(***************************************************************************)
C28_OneRequestInFlight == Requests <= 1

(***************************************************************************)
(* C29.  Activating the destination's Clear control in route mode leaves   *)
(* the App without a destination and with routes and selectedRoute reset.  *)
(***************************************************************************)
C29_ClearLeavesNoDestination ==
    [][ClearDestination =>
          /\ app'.destination = None
          /\ app'.routes = None
          /\ app'.selectedRoute = None]_vars

(***************************************************************************)
(* C30.  Provided every request that is in flight eventually resolves or   *)
(* rejects, status does not stay LOADING forever: while a request is in    *)
(* flight status eventually becomes SUCCESS or ERROR, and whenever no      *)
(* request is in flight status is not LOADING.                             *)
(***************************************************************************)
C30_LoadingEnds ==
    /\ [](InFlight = {} => app.status # "LOADING")
    /\ (InFlight # {}) ~> (app.status \in {"SUCCESS", "ERROR"})

\* C30: a location update has put status back to IDLE while the request is
\* still in flight
C30_Witness ==
    /\ InFlight # {}
    /\ app.status = "IDLE"
    /\ app.analysis = None
    /\ app.viewMode = "markers"

\* an item with coordinates, and the intensity the specification gives it:
\* the popularity, 0.5 when absent, raised by 0.2 when rating > 4.5, at
\* most 1.0
WithCoordinates(item) == item.lat # Undefined /\ item.lng # Undefined

Intensity(item) ==
    LET popular == IF item.popularity # Undefined THEN item.popularity ELSE Lit(5, 10)
        raised == IF item.rating # Undefined /\ Less(Lit(45, 10), item.rating)
                  THEN Add(popular, Lit(2, 10))
                  ELSE popular
    IN  MathMin(raised, Lit(10, 10))

InUnitRange(u) == ~Less(u, Lit(0, 1)) /\ ~Less(Lit(1, 1), u)

(***************************************************************************)
(* C23.  For every PlaceItem with coordinates, the heatmap intensity       *)
(* derived from it lies in [0,1]: it is the item's popularity (0.5 when    *)
(* absent), raised by 0.2 when rating > 4.5, and clamped to at most 1.0.   *)
(***************************************************************************)
C23_IntensityInUnitRange ==
    points # None =>
        LET drawn == SelectSeq(places, WithCoordinates)
        IN  /\ Len(points[1]) = Len(drawn)
            /\ \A i \in 1..Len(drawn) :
                 /\ points[1][i].intensity = Intensity(drawn[i])
                 /\ InUnitRange(points[1][i].intensity)

(***************************************************************************)
(* C24.  The ring built for a center and radius with 120 segments has      *)
(* exactly 121 points, the i-th (i = 0..120) the destination at bearing    *)
(* i * 3 degrees and distance radius from the center, so that the first    *)
(* and the last point (bearings 0 and 360) coincide.                       *)
(***************************************************************************)
C24_RingClosed ==
    positions # None =>
        LET ring == positions[1]
        IN  /\ Len(ring) = Segments + 1
            /\ \A i \in 0..Segments :
                 ring[i + 1] = CalculateDestination(circle.center.lat, circle.center.lng,
                                                    circle.radius,
                                                    Mul(WholeNumber(i), WholeNumber(3)))
            /\ ring[1] = ring[Segments + 1]

(***************************************************************************)
(* C25.  getDistance is symmetric: the distance measured from A to B is    *)
(* the distance from B to A.                                               *)
(***************************************************************************)
C25_DistanceSymmetric ==
    measured # None =>
        measured[1] = GetDistance(span.to.lat, span.to.lng, span.from.lat, span.from.lng)

\* C25: a distance has been measured between two places that differ in
\* latitude and in longitude, and it is not 0
C25_Witness ==
    /\ measured # None
    /\ span.from.lat # span.to.lat
    /\ span.from.lng # span.to.lng
    /\ ~IsZero(measured[1])

====
